---- MODULE Spec2Model ----
(***************************************************************************)
(* convolve2d of lecture_3/CEx4_Convolutions_&_Filters.ipynb as a state    *)
(* machine: one call, stepped statement by statement, on arguments drawn   *)
(* from bounded sets of grids, kernels and padding strings.                *)
(*                                                                         *)
(* Array cells are floating-point numbers in the notebook.  Here a cell is *)
(* an exact rational [n |-> numerator, d |-> denominator] in lowest terms  *)
(* with d > 0, so that 1/9 and 255*4/9 are values and structural equality  *)
(* is numeric equality.  Rounding of float64 is not modelled.              *)
(* A 2-D array is a record [h, w, a] with shape (h, w) and a[y][x] its     *)
(* cell in row y, column x, both counted from 0 as numpy does.            *)
(***************************************************************************)
EXTENDS Integers, Sequences, FiniteSets, TLC

VARIABLES image, kernel, padding,
          img, image_height, image_width, kernel_height, kernel_width,
          output_height, output_width, output, i, j, pc, err,
          img_obj, output_obj,
          caller_pc, returned, grad_x, grad_y, grad_magnitude,
          written, inflight,
          notebook, run_mode, nb_cell, nb_stmt, nb_halted, names, cell_result,
          conv_calls, stdout,
          train_pc, epoch, params, outputs, loss, grad, stepped, losses

\* the array objects the local names image and output are bound to
objVars == <<img_obj, output_obj>>

\* the caller of convolve2d: its position, the calls that have returned to
\* it, and the locals of apply_sobel_filters
callerVars == <<caller_pc, returned, grad_x, grad_y, grad_magnitude>>

\* the output cells written, in the order of the writes, and the cell each
\* worker is computing, when the cells are computed in any order
workerVars == <<written, inflight>>

\* a notebook run cell by cell: which notebook and how it is run, the cell and
\* the statement reached, the names bound in the kernel's namespace, how each
\* cell ended, the kernels convolve2d was called with, and the lines printed
nbVars == <<notebook, run_mode, nb_cell, nb_stmt, nb_halted, names, cell_result,
            conv_calls, stdout>>

\* the training loop of the perceptron notebook: the statement reached, the
\* loop variable, the parameters of the model, the locals outputs and loss,
\* the .grad buffer of the parameters, what the optimizer steps consumed,
\* and the list losses
trainVars == <<train_pc, epoch, params, outputs, loss, grad, stepped, losses>>

vars == <<image, kernel, padding, img, image_height, image_width,
          kernel_height, kernel_width, output_height, output_width,
          output, i, j, pc, err, objVars, callerVars, workerVars,
          nbVars, trainVars>>

(***************************************************************************)
(* Bounds of the argument sets.                                            *)
(***************************************************************************)
\* generic images have at most MaxArea cells (H*W <= MaxArea, H, W >= 1)
MaxArea == 4
\* generic kernels have at most MaxTaps cells (Kh*Kw <= MaxTaps, Kh, Kw >= 0)
MaxTaps == 4
\* images with a vertical line are at most MaxSide columns wide
MaxSide == 5

(***************************************************************************)
(* Rational arithmetic.                                                    *)
(***************************************************************************)
Abs(x) == IF x < 0 THEN -x ELSE x

RECURSIVE GCD(_, _)
GCD(a, b) == IF b = 0 THEN a ELSE GCD(b, a % b)

Rat(n, d) == LET g == GCD(Abs(n), d) IN [n |-> n \div g, d |-> d \div g]

Q(n) == [n |-> n, d |-> 1]

RatAdd(p, q) == Rat(p.n * q.d + q.n * p.d, p.d * q.d)

RatMul(p, q) == Rat(p.n * q.n, p.d * q.d)

(***************************************************************************)
(* numpy arrays and the numpy operations convolve2d uses.                  *)
(***************************************************************************)
Min(a, b) == IF a < b THEN a ELSE b

Max(a, b) == IF a > b THEN a ELSE b

\* np.array(rows): a literal of integer rows
NpArray(rows) ==
    [h |-> Len(rows), w |-> Len(rows[1]),
     a |-> [y \in 0..(Len(rows) - 1) |->
              [x \in 0..(Len(rows[1]) - 1) |-> Q(rows[y + 1][x + 1])]]]

\* np.full((h, w), v); np.zeros and np.ones are its cases v = 0 and v = 1
NpFull(h, w, v) ==
    [h |-> h, w |-> w, a |-> [y \in 0..(h - 1) |-> [x \in 0..(w - 1) |-> v]]]

NpZeros(h, w) == NpFull(h, w, Q(0))

NpOnes(h, w) == NpFull(h, w, Q(1))

\* array // n: the quotient rounded down, where array / n was meant
NpDivScalar_Floor(g, n) ==
    [h |-> g.h, w |-> g.w,
     a |-> [y \in 0..(g.h - 1) |->
              [x \in 0..(g.w - 1) |-> Q(g.a[y][x].n \div (g.a[y][x].d * n))]]]

\* array / n, cell by cell
NpDivScalar(g, n) ==
    [h |-> g.h, w |-> g.w,
     a |-> [y \in 0..(g.h - 1) |->
              [x \in 0..(g.w - 1) |-> RatMul(g.a[y][x], Rat(1, n))]]]

\* a cell of np.pad(..., mode='edge'): the nearest cell of g outside g
PadCell_Edge(g, ph, pw, y, x) ==
    g.a[Max(0, Min(y - ph, g.h - 1))][Max(0, Min(x - pw, g.w - 1))]

\* a cell of np.pad(g, ((ph, ph), (2 * pw, 0)), mode='constant'): all the
\* zero columns on the left
PadCell_LeftOnly(g, ph, pw, y, x) ==
    IF y >= ph /\ y < ph + g.h /\ x >= 2 * pw /\ x < 2 * pw + g.w
    THEN g.a[y - ph][x - 2 * pw]
    ELSE Q(0)

\* a cell of np.pad(g, ((ph, ph), (pw, pw)), mode='constant') read with the
\* coordinates (y, x) of the padded array: the constant 0 outside g
PadCell(g, ph, pw, y, x) ==
    IF y >= ph /\ y < ph + g.h /\ x >= pw /\ x < pw + g.w
    THEN g.a[y - ph][x - pw]
    ELSE Q(0)

\* np.pad(g, ((ph, 0), (pw, 0)), mode='constant'): no rows below, no
\* columns to the right
NpPad_LeadingOnly(g, ph, pw) ==
    [h |-> g.h + ph, w |-> g.w + pw,
     a |-> [y \in 0..(g.h + ph - 1) |->
              [x \in 0..(g.w + pw - 1) |-> PadCell(g, ph, pw, y, x)]]]

\* np.pad(g, ((ph, ph), (pw, pw)), mode='constant'): a new array
NpPad(g, ph, pw) ==
    [h |-> g.h + 2 * ph, w |-> g.w + 2 * pw,
     a |-> [y \in 0..(g.h + 2 * ph - 1) |->
              [x \in 0..(g.w + 2 * pw - 1) |-> PadCell(g, ph, pw, y, x)]]]

\* a slice that ignores its offsets: g[0:kh, 0:kw]
NpSlice_NoOffset(g, i0, j0, kh, kw) ==
    LET h == Max(0, Min(kh, g.h))
        w == Max(0, Min(kw, g.w))
    IN  [h |-> h, w |-> w,
         a |-> [r \in 0..(h - 1) |-> [c \in 0..(w - 1) |-> g.a[r][c]]]]

\* g[i:i+kh, j:j+kw]: a slice, cut at the array's end as numpy cuts it
NpSlice(g, i0, j0, kh, kw) ==
    LET h == Max(0, Min(i0 + kh, g.h) - i0)
        w == Max(0, Min(j0 + kw, g.w) - j0)
    IN  [h |-> h, w |-> w,
         a |-> [r \in 0..(h - 1) |-> [c \in 0..(w - 1) |-> g.a[i0 + r][j0 + c]]]]

\* region * kernel[::-1, ::-1]: the kernel mirrored, a true convolution
NpMultiply_Flipped(region, k) ==
    [h |-> k.h, w |-> k.w,
     a |-> [r \in 0..(k.h - 1) |->
              [c \in 0..(k.w - 1) |->
                 RatMul(region.a[r][c], k.a[k.h - 1 - r][k.w - 1 - c])]]]

\* region * kernel for two arrays of one shape: the cell-by-cell product,
\* the kernel read in its stored orientation
NpMultiply(region, k) ==
    [h |-> k.h, w |-> k.w,
     a |-> [r \in 0..(k.h - 1) |->
              [c \in 0..(k.w - 1) |-> RatMul(region.a[r][c], k.a[r][c])]]]

\* the sum of the first n cells of g in row-major order
RECURSIVE SumCells(_, _)
SumCells(g, n) ==
    IF n = 0 THEN Q(0)
    ELSE RatAdd(SumCells(g, n - 1), g.a[(n - 1) \div g.w][(n - 1) % g.w])

\* np.sum(g): the sum of all cells, 0 for an array with no cell
NpSum(g) == SumCells(g, g.h * g.w)

(***************************************************************************)
(* The kernels the notebook defines.                                       *)
(***************************************************************************)
averaging_kernel == NpDivScalar(NpOnes(3, 3), 9)

sobel_x == NpArray(<< <<-1, 0, 1>>, <<-2, 0, 2>>, <<-1, 0, 1>> >>)

\* sobel_y with its rows in the other order
sobel_y_Reversed == NpArray(<< <<1, 2, 1>>, <<0, 0, 0>>, <<-1, -2, -1>> >>)

sobel_y == NpArray(<< <<-1, -2, -1>>, <<0, 0, 0>>, <<1, 2, 1>> >>)

prewitt_x == NpArray(<< <<-1, 0, 1>>, <<-1, 0, 1>>, <<-1, 0, 1>> >>)

prewitt_y == NpArray(<< <<-1, -1, -1>>, <<0, 0, 0>>, <<1, 1, 1>> >>)

\* a Laplacian whose centre outweighs its neighbours
laplacian_Unbalanced == NpArray(<< <<0, -1, 0>>, <<-1, 5, -1>>, <<0, -1, 0>> >>)

laplacian == NpArray(<< <<0, -1, 0>>, <<-1, 4, -1>>, <<0, -1, 0>> >>)

\* the 8-neighbour sharpening kernel
sharpening_Box == NpArray(<< <<-1, -1, -1>>, <<-1, 9, -1>>, <<-1, -1, -1>> >>)

sharpening == NpArray(<< <<0, -1, 0>>, <<-1, 5, -1>>, <<0, -1, 0>> >>)

\* a 5x5 kernel divided by the size of the 3x3 one
gaussian_blur_Ninths == NpDivScalar(NpOnes(5, 5), 9)

gaussian_blur == NpDivScalar(NpOnes(5, 5), 25)

NotebookKernels ==
    {averaging_kernel, sobel_x, sobel_y, prewitt_x, prewitt_y,
     laplacian, sharpening, gaussian_blur}

(***************************************************************************)
(* The arguments of a call.                                                *)
(***************************************************************************)
\* the intensities create_test_images writes: background 0, feature 255
PixelValues == {Q(0), Q(255)}

KernelValues == {Q(0), Q(1)}

Shapes(lo, cells) ==
    {s \in (lo..cells) \X (lo..cells) : s[1] * s[2] <= cells}

ArraysOver(s, values) ==
    {[h |-> s[1], w |-> s[2], a |-> f] :
        f \in [0..(s[1] - 1) -> [0..(s[2] - 1) -> values]]}

\* img = np.zeros((h, w)); img[:, c] = 255: a vertical line in column c
VerticalLine(h, w, c) ==
    [h |-> h, w |-> w,
     a |-> [y \in 0..(h - 1) |->
              [x \in 0..(w - 1) |-> IF x = c THEN Q(255) ELSE Q(0)]]]

\* three-row images with one vertical line in a column that is not a border
LineImages ==
    UNION {{VerticalLine(3, w, c) : c \in 1..(w - 2)} : w \in 4..MaxSide}

\* every image of at most MaxArea cells over PixelValues, and the constant
\* images the notebook's kernels are tried on
Images ==
    UNION {ArraysOver(s, PixelValues) : s \in Shapes(1, MaxArea)}
    \cup {NpFull(3, 3, Q(255)), NpFull(4, 4, Q(255)), NpFull(5, 5, Q(255))}
    \cup LineImages

\* every kernel of at most MaxTaps cells over KernelValues (a dimension may
\* be 0), and the notebook's kernels
Kernels ==
    UNION {ArraysOver(s, KernelValues) : s \in Shapes(0, MaxTaps)}
    \cup NotebookKernels

\* padding is a str: the two documented values and one that is neither
Paddings == {"valid", "same", "full"}

(***************************************************************************)
(* convolve2d, statement by statement.                                     *)
(***************************************************************************)
\* (kernel_height + 1) // 2: the half rounded up
HalfKernel_RoundUp(k) == (k + 1) \div 2

\* kernel_height // 2
HalfKernel(k) == k \div 2

\* image_height - kernel_height: the + 1 forgotten
OutputDim_NoPlusOne(n, k) == n - k

\* image_height - kernel_height + 1
OutputDim(n, k) == n - k + 1

\* np.abs(np.sum(region * kernel)): the magnitude of the response
WindowSum_Abs(g, k, i0, j0) ==
    LET v == NpSum(NpMultiply(NpSlice(g, i0, j0, k.h, k.w), k))
    IN  [n |-> Abs(v.n), d |-> v.d]

\* np.sum(region + kernel): the product mistyped as a sum
WindowSum_Add(g, k, i0, j0) ==
    LET region == NpSlice(g, i0, j0, k.h, k.w)
    IN  NpSum([h |-> k.h, w |-> k.w,
               a |-> [r \in 0..(k.h - 1) |->
                        [c \in 0..(k.w - 1) |-> RatAdd(region.a[r][c], k.a[r][c])]]])

\* no notebook is being run
NotebookIdle ==
    /\ notebook = "none"
    /\ run_mode = "none"
    /\ nb_cell = 0
    /\ nb_stmt = 0
    /\ nb_halted = FALSE
    /\ names = {}
    /\ cell_result = << >>
    /\ conv_calls = << >>
    /\ stdout = << >>

\* the training loop is not being run
TrainIdle ==
    /\ train_pc = "none"
    /\ epoch = 0
    /\ params = 0
    /\ outputs = << >>
    /\ loss = << >>
    /\ grad = << >>
    /\ stepped = << >>
    /\ losses = << >>

\* np.sum(region * kernel) for the region at (i0, j0)
WindowSum(g, k, i0, j0) == NpSum(NpMultiply(NpSlice(g, i0, j0, k.h, k.w), k))

Init ==
    /\ image \in Images
    /\ kernel \in Kernels
    /\ padding \in Paddings
    /\ img = image
    /\ image_height = 0
    /\ image_width = 0
    /\ kernel_height = 0
    /\ kernel_width = 0
    /\ output_height = 0
    /\ output_width = 0
    /\ output = NpZeros(0, 0)
    /\ i = 0
    /\ j = 0
    /\ pc = "start"
    /\ err = "none"
    /\ img_obj = "image"
    /\ output_obj = "none"
    /\ caller_pc = "call"
    /\ returned = << >>
    /\ grad_x = NpZeros(0, 0)
    /\ grad_y = NpZeros(0, 0)
    /\ grad_magnitude = NpZeros(0, 0)
    /\ written = << >>
    /\ inflight = << >>
    /\ NotebookIdle
    /\ TrainIdle

\* image_height, image_width = image.shape; kernel_height, ... = kernel.shape
GetDimensions ==
    /\ pc = "start"
    /\ image_height' = img.h
    /\ image_width' = img.w
    /\ kernel_height' = kernel.h
    /\ kernel_width' = kernel.w
    /\ pc' = "pad"
    /\ UNCHANGED <<image, kernel, padding, img, output_height, output_width,
                   output, i, j, err,
                   objVars, callerVars, workerVars,
                   nbVars, trainVars>>

\* if padding == 'same': the local name image is rebound to a padded copy
ApplyPadding ==
    /\ pc = "pad"
    /\ padding = "same"
    /\ LET pad_h == HalfKernel(kernel_height)
           pad_w == HalfKernel(kernel_width)
           padded == NpPad(img, pad_h, pad_w)
       IN  /\ img' = padded
           /\ image_height' = padded.h
           /\ image_width' = padded.w
    /\ pc' = "dims"
    /\ img_obj' = "padded"
    /\ UNCHANGED <<image, kernel, padding, kernel_height, kernel_width,
                   output_height, output_width, output, i, j, err,
                   output_obj, callerVars, workerVars,
                   nbVars, trainVars>>

\* a padding argument that is checked: any string but 'valid' is refused
SkipPadding_Validating ==
    /\ pc = "pad"
    /\ padding # "same"
    /\ pc' = IF padding = "valid" THEN "dims" ELSE "raised"
    /\ err' = IF padding = "valid" THEN err ELSE "ValueError"
    /\ UNCHANGED <<image, kernel, padding, img, image_height, image_width,
                   kernel_height, kernel_width, output_height, output_width,
                   output, i, j,
                   objVars, callerVars, workerVars,
                   nbVars, trainVars>>

\* padding != 'same': the if body is skipped, whatever the string is
SkipPadding ==
    /\ pc = "pad"
    /\ padding # "same"
    /\ pc' = "dims"
    /\ UNCHANGED <<image, kernel, padding, img, image_height, image_width,
                   kernel_height, kernel_width, output_height, output_width,
                   output, i, j, err,
                   objVars, callerVars, workerVars,
                   nbVars, trainVars>>

\* a same mode that keeps the size of the argument whatever the kernel
CalcOutputDims_PreserveSize ==
    /\ pc = "dims"
    /\ output_height' = IF padding = "same" THEN image.h
                        ELSE OutputDim(image_height, kernel_height)
    /\ output_width' = IF padding = "same" THEN image.w
                       ELSE OutputDim(image_width, kernel_width)
    /\ pc' = "alloc"
    /\ UNCHANGED <<image, kernel, padding, img, image_height, image_width,
                   kernel_height, kernel_width, output, i, j, err,
                   objVars, callerVars, workerVars,
                   nbVars, trainVars>>

\* output_height = ...; output_width = ...
CalcOutputDims ==
    /\ pc = "dims"
    /\ output_height' = OutputDim(image_height, kernel_height)
    /\ output_width' = OutputDim(image_width, kernel_width)
    /\ pc' = "alloc"
    /\ UNCHANGED <<image, kernel, padding, img, image_height, image_width,
                   kernel_height, kernel_width, output, i, j, err,
                   objVars, callerVars, workerVars,
                   nbVars, trainVars>>

\* an allocation that takes a negative dimension for 0
InitOutput_Clamped ==
    /\ pc = "alloc"
    /\ output' = NpZeros(Max(0, output_height), Max(0, output_width))
    /\ i' = 0
    /\ j' = 0
    /\ pc' = "loop"
    /\ output_obj' = "zeros"
    /\ UNCHANGED <<image, kernel, padding, img, image_height, image_width,
                   kernel_height, kernel_width, output_height, output_width,
                   err,
                   img_obj, callerVars, workerVars,
                   nbVars, trainVars>>

\* output = np.zeros((output_height, output_width)), the outer loop entered
InitOutput ==
    /\ pc = "alloc"
    /\ output_height >= 0
    /\ output_width >= 0
    /\ output' = NpZeros(output_height, output_width)
    /\ i' = 0
    /\ j' = 0
    /\ pc' = "loop"
    /\ output_obj' = "zeros"
    /\ UNCHANGED <<image, kernel, padding, img, image_height, image_width,
                   kernel_height, kernel_width, output_height, output_width,
                   err,
                   img_obj, callerVars, workerVars,
                   nbVars, trainVars>>

\* np.zeros raises ValueError for a negative dimension: the call ends here
InitOutputRaises ==
    /\ pc = "alloc"
    /\ (output_height < 0 \/ output_width < 0)
    /\ err' = "ValueError"
    /\ pc' = "raised"
    /\ UNCHANGED <<image, kernel, padding, img, image_height, image_width,
                   kernel_height, kernel_width, output_height, output_width,
                   output, i, j,
                   objVars, callerVars, workerVars,
                   nbVars, trainVars>>

\* image[i, j] = np.sum(region * kernel): the response written over the
\* caller's image, a filter in place
ComputeCell_InPlace ==
    /\ pc = "loop"
    /\ i < output_height
    /\ j < output_width
    /\ image' = IF i < image.h /\ j < image.w
                THEN [image EXCEPT !.a[i][j] = WindowSum(img, kernel, i, j)]
                ELSE image
    /\ j' = j + 1
    /\ UNCHANGED <<kernel, padding, img, image_height, image_width,
                   kernel_height, kernel_width, output_height, output_width,
                   output, i, pc, err,
                   objVars, callerVars, workerVars,
                   nbVars, trainVars>>

\* one pass of the inner loop body: output[i, j] = np.sum(region * kernel)
ComputeCell ==
    /\ pc = "loop"
    /\ i < output_height
    /\ j < output_width
    /\ output' = [output EXCEPT !.a[i][j] = WindowSum(img, kernel, i, j)]
    /\ j' = j + 1
    /\ UNCHANGED <<image, kernel, padding, img, image_height, image_width,
                   kernel_height, kernel_width, output_height, output_width,
                   i, pc, err,
                   objVars, callerVars, workerVars,
                   nbVars, trainVars>>

\* an outer loop whose rows share one column counter
NextRow_NoReset ==
    /\ pc = "loop"
    /\ i < output_height
    /\ j >= output_width
    /\ i' = i + 1
    /\ UNCHANGED <<image, kernel, padding, img, image_height, image_width,
                   kernel_height, kernel_width, output_height, output_width,
                   output, j, pc, err,
                   objVars, callerVars, workerVars,
                   nbVars, trainVars>>

\* range(output_width) is exhausted: the outer loop takes its next i
NextRow ==
    /\ pc = "loop"
    /\ i < output_height
    /\ j >= output_width
    /\ i' = i + 1
    /\ j' = 0
    /\ UNCHANGED <<image, kernel, padding, img, image_height, image_width,
                   kernel_height, kernel_width, output_height, output_width,
                   output, pc, err,
                   objVars, callerVars, workerVars,
                   nbVars, trainVars>>

\* range(output_height) is exhausted: return output
Return ==
    /\ pc = "loop"
    /\ i >= output_height
    /\ pc' = "done"
    /\ UNCHANGED <<image, kernel, padding, img, image_height, image_width,
                   kernel_height, kernel_width, output_height, output_width,
                   output, i, j, err,
                   objVars, callerVars, workerVars,
                   nbVars, trainVars>>

Next ==
    \/ GetDimensions
    \/ ApplyPadding
    \/ SkipPadding
    \/ CalcOutputDims
    \/ InitOutput
    \/ InitOutputRaises
    \/ ComputeCell
    \/ NextRow
    \/ Return

Spec == Init /\ [][Next]_vars

(***************************************************************************)
(* A caller that calls convolve2d several times, as the notebook's cells    *)
(* do one after the other.                                                  *)
(***************************************************************************)
\* the caller makes at most MaxCalls calls
MaxCalls == 3

CallImages == {NpArray(<< <<255, 0>> >>), NpFull(3, 3, Q(255))}

CallKernels == {NpArray(<< <<1>> >>), sobel_x}

CallPaddings == {"valid", "same"}

\* the frame of a call at its entry: image bound to the argument, the other
\* locals not yet assigned
AtEntry ==
    /\ img = image
    /\ image_height = 0
    /\ image_width = 0
    /\ kernel_height = 0
    /\ kernel_width = 0
    /\ output_height = 0
    /\ output_width = 0
    /\ output = NpZeros(0, 0)
    /\ i = 0
    /\ j = 0
    /\ pc = "start"
    /\ err = "none"
    /\ img_obj = "image"
    /\ output_obj = "none"

\* a new call convolve2d(im, k, p): a fresh frame
Enter(im, k, p) ==
    /\ image' = im
    /\ kernel' = k
    /\ padding' = p
    /\ img' = im
    /\ image_height' = 0
    /\ image_width' = 0
    /\ kernel_height' = 0
    /\ kernel_width' = 0
    /\ output_height' = 0
    /\ output_width' = 0
    /\ output' = NpZeros(0, 0)
    /\ i' = 0
    /\ j' = 0
    /\ pc' = "start"
    /\ err' = "none"
    /\ img_obj' = "image"
    /\ output_obj' = "none"

\* what the call that has just ended gave its caller
CallResult ==
    [image |-> image, kernel |-> kernel, padding |-> padding,
     raised |-> (pc = "raised"),
     output |-> IF pc = "raised" THEN NpZeros(0, 0) ELSE output]

InitCalls ==
    /\ image \in CallImages
    /\ kernel \in CallKernels
    /\ padding \in CallPaddings
    /\ AtEntry
    /\ caller_pc = "call"
    /\ returned = << >>
    /\ grad_x = NpZeros(0, 0)
    /\ grad_y = NpZeros(0, 0)
    /\ grad_magnitude = NpZeros(0, 0)
    /\ written = << >>
    /\ inflight = << >>
    /\ NotebookIdle
    /\ TrainIdle

\* the next call reads its working image from the name the earlier call left
\* behind, not from its own argument
CallAgain_StaleImage ==
    /\ pc \in {"done", "raised"}
    /\ Len(returned) < MaxCalls - 1
    /\ returned' = Append(returned, CallResult)
    /\ \E im \in CallImages, k \in CallKernels, p \in CallPaddings :
          /\ image' = im
          /\ kernel' = k
          /\ padding' = p
    /\ pc' = "start"
    /\ err' = "none"
    /\ UNCHANGED <<img, image_height, image_width, kernel_height, kernel_width,
                   output_height, output_width, output, i, j, objVars,
                   caller_pc, grad_x, grad_y, grad_magnitude, workerVars,
                   nbVars, trainVars>>

\* the call has ended (returned or raised); the caller keeps what it gave and
\* calls convolve2d again with arguments of its choice
CallAgain ==
    /\ pc \in {"done", "raised"}
    /\ Len(returned) < MaxCalls - 1
    /\ returned' = Append(returned, CallResult)
    /\ \E im \in CallImages, k \in CallKernels, p \in CallPaddings :
          Enter(im, k, p)
    /\ UNCHANGED <<caller_pc, grad_x, grad_y, grad_magnitude, workerVars,
                   nbVars, trainVars>>

NextCalls ==
    \/ GetDimensions
    \/ ApplyPadding
    \/ SkipPadding
    \/ CalcOutputDims
    \/ InitOutput
    \/ InitOutputRaises
    \/ ComputeCell
    \/ NextRow
    \/ Return
    \/ CallAgain

SpecCalls == InitCalls /\ [][NextCalls]_vars

(***************************************************************************)
(* The loop body run once per output cell in any order, by workers that     *)
(* each take cells nobody else has taken: the prologue of convolve2d as     *)
(* above, then per cell the two statements of the body, the read            *)
(* (region = ..., np.sum(region * kernel)) and the write (output[i, j] =).  *)
(***************************************************************************)
NWorkers == 2

Workers == 1..NWorkers

AnyOrderImages == {NpArray(<< <<255, 0>> >>),
                   NpArray(<< <<0, 255, 0>>, <<255, 0, 255>> >>)}

AnyOrderKernels == {NpArray(<< <<1>> >>), sobel_x}

AnyOrderPaddings == {"valid", "same"}

Idle == [busy |-> FALSE, i |-> 0, j |-> 0, value |-> Q(0)]

InitAnyOrder ==
    /\ image \in AnyOrderImages
    /\ kernel \in AnyOrderKernels
    /\ padding \in AnyOrderPaddings
    /\ AtEntry
    /\ caller_pc = "call"
    /\ returned = << >>
    /\ grad_x = NpZeros(0, 0)
    /\ grad_y = NpZeros(0, 0)
    /\ grad_magnitude = NpZeros(0, 0)
    /\ written = << >>
    /\ inflight = [w \in Workers |-> Idle]
    /\ NotebookIdle
    /\ TrainIdle

\* the (i, j) of range(output_height) x range(output_width)
LoopCells == (0..(output_height - 1)) \X (0..(output_width - 1))

WrittenCells == {written[n] : n \in 1..Len(written)}

TakenCells == {<<inflight[w].i, inflight[w].j>> : w \in {v \in Workers : inflight[v].busy}}

\* a body that adds its window's sum to the cell on its left
TakeCell_Running(w) ==
    /\ pc = "loop"
    /\ ~inflight[w].busy
    /\ \E c \in LoopCells \ (WrittenCells \cup TakenCells) :
          inflight' = [inflight EXCEPT ![w] =
                          [busy |-> TRUE, i |-> c[1], j |-> c[2],
                           value |-> IF c[2] > 0
                                     THEN RatAdd(output.a[c[1]][c[2] - 1],
                                                 WindowSum(img, kernel, c[1], c[2]))
                                     ELSE WindowSum(img, kernel, c[1], c[2])]]
    /\ UNCHANGED <<image, kernel, padding, img, image_height, image_width,
                   kernel_height, kernel_width, output_height, output_width,
                   output, i, j, pc, err, objVars, callerVars, written,
                   nbVars, trainVars>>

\* worker w takes a cell nobody has taken and evaluates the right-hand side
\* np.sum(img[i:i+kernel_height, j:j+kernel_width] * kernel)
TakeCell(w) ==
    /\ pc = "loop"
    /\ ~inflight[w].busy
    /\ \E c \in LoopCells \ (WrittenCells \cup TakenCells) :
          inflight' = [inflight EXCEPT ![w] =
                          [busy |-> TRUE, i |-> c[1], j |-> c[2],
                           value |-> WindowSum(img, kernel, c[1], c[2])]]
    /\ UNCHANGED <<image, kernel, padding, img, image_height, image_width,
                   kernel_height, kernel_width, output_height, output_width,
                   output, i, j, pc, err, objVars, callerVars, written,
                   nbVars, trainVars>>

\* worker w stores the value: output[i, j] = ...
WriteCell(w) ==
    /\ pc = "loop"
    /\ inflight[w].busy
    /\ output' = [output EXCEPT !.a[inflight[w].i][inflight[w].j] = inflight[w].value]
    /\ written' = Append(written, <<inflight[w].i, inflight[w].j>>)
    /\ inflight' = [inflight EXCEPT ![w] = Idle]
    /\ UNCHANGED <<image, kernel, padding, img, image_height, image_width,
                   kernel_height, kernel_width, output_height, output_width,
                   i, j, pc, err, objVars, callerVars,
                   nbVars, trainVars>>

\* every cell has been written: return output
ReturnAnyOrder ==
    /\ pc = "loop"
    /\ WrittenCells = LoopCells
    /\ pc' = "done"
    /\ UNCHANGED <<image, kernel, padding, img, image_height, image_width,
                   kernel_height, kernel_width, output_height, output_width,
                   output, i, j, err, objVars, callerVars, workerVars,
                   nbVars, trainVars>>

NextAnyOrder ==
    \/ GetDimensions
    \/ ApplyPadding
    \/ SkipPadding
    \/ CalcOutputDims
    \/ InitOutput
    \/ InitOutputRaises
    \/ \E w \in Workers : TakeCell(w)
    \/ \E w \in Workers : WriteCell(w)
    \/ ReturnAnyOrder

SpecAnyOrder == InitAnyOrder /\ [][NextAnyOrder]_vars

(***************************************************************************)
(* apply_sobel_filters(image): two calls of convolve2d, then the gradient   *)
(* magnitude.  A square root is kept exact, as coef * sqrt(rad) with rad    *)
(* square-free.                                                             *)
(***************************************************************************)
\* the largest p' >= 1 with p'^2 dividing m, found by trial division from p
RECURSIVE SquarePart(_, _)
SquarePart(m, p) ==
    IF p * p > m THEN 1
    ELSE IF m % (p * p) = 0 THEN p * SquarePart(m \div (p * p), p)
    ELSE SquarePart(m, p + 1)

\* sqrt of a rational q >= 0: sqrt(n/d) = sqrt(n*d) / d
Sqrt(q) ==
    IF q.n = 0 THEN [coef |-> Q(0), rad |-> 1]
    ELSE LET c == SquarePart(q.n * q.d, 2)
         IN  [coef |-> Rat(c, q.d), rad |-> (q.n * q.d) \div (c * c)]

\* g ** 2, cell by cell
NpSquare(g) ==
    [h |-> g.h, w |-> g.w,
     a |-> [y \in 0..(g.h - 1) |-> [x \in 0..(g.w - 1) |-> RatMul(g.a[y][x], g.a[y][x])]]]

\* g1 + g2 for two arrays of one shape
NpAdd(g1, g2) ==
    [h |-> g1.h, w |-> g1.w,
     a |-> [y \in 0..(g1.h - 1) |-> [x \in 0..(g1.w - 1) |-> RatAdd(g1.a[y][x], g2.a[y][x])]]]

\* np.sqrt(g), cell by cell
NpSqrt(g) ==
    [h |-> g.h, w |-> g.w,
     a |-> [y \in 0..(g.h - 1) |-> [x \in 0..(g.w - 1) |-> Sqrt(g.a[y][x])]]]

\* np.abs(g), cell by cell, each cell as a root-free surd
NpAbsAsSurd(g) ==
    [h |-> g.h, w |-> g.w,
     a |-> [y \in 0..(g.h - 1) |->
              [x \in 0..(g.w - 1) |-> [coef |-> Rat(Abs(g.a[y][x].n), g.a[y][x].d), rad |-> 1]]]]

SobelImages == Images

InitSobel ==
    /\ image \in SobelImages
    /\ kernel = sobel_x
    /\ padding = "same"
    /\ AtEntry
    /\ caller_pc = "grad_x"
    /\ returned = << >>
    /\ grad_x = NpZeros(0, 0)
    /\ grad_y = NpZeros(0, 0)
    /\ grad_magnitude = NpZeros(0, 0)
    /\ written = << >>
    /\ inflight = << >>
    /\ NotebookIdle
    /\ TrainIdle

\* grad_x = convolve2d(image, sobel_x, padding='same') has returned; the
\* next statement calls convolve2d(image, sobel_y, padding='same')
AssignGradX ==
    /\ caller_pc = "grad_x"
    /\ pc = "done"
    /\ grad_x' = output
    /\ caller_pc' = "grad_y"
    /\ Enter(image, sobel_y, "same")
    /\ UNCHANGED <<returned, grad_y, grad_magnitude, workerVars,
                   nbVars, trainVars>>

\* grad_y = convolve2d(image, sobel_y, padding='same') has returned
AssignGradY ==
    /\ caller_pc = "grad_y"
    /\ pc = "done"
    /\ grad_y' = output
    /\ caller_pc' = "magnitude"
    /\ pc' = "returned"
    /\ UNCHANGED <<image, kernel, padding, img, image_height, image_width,
                   kernel_height, kernel_width, output_height, output_width,
                   output, i, j, err, objVars,
                   returned, grad_x, grad_magnitude, workerVars,
                   nbVars, trainVars>>

\* the sum of the absolute gradients instead of the root of the squares
ComputeMagnitude_L1 ==
    /\ caller_pc = "magnitude"
    /\ grad_magnitude' =
          [h |-> grad_x.h, w |-> grad_x.w,
           a |-> [y \in 0..(grad_x.h - 1) |->
                    [x \in 0..(grad_x.w - 1) |->
                       [coef |-> RatAdd(NpAbsAsSurd(grad_x).a[y][x].coef,
                                        NpAbsAsSurd(grad_y).a[y][x].coef),
                        rad |-> 1]]]]
    /\ caller_pc' = "return"
    /\ UNCHANGED <<image, kernel, padding, img, image_height, image_width,
                   kernel_height, kernel_width, output_height, output_width,
                   output, i, j, pc, err, objVars,
                   returned, grad_x, grad_y, workerVars,
                   nbVars, trainVars>>

\* grad_magnitude = np.sqrt(grad_x**2 + grad_y**2)
ComputeMagnitude ==
    /\ caller_pc = "magnitude"
    /\ grad_magnitude' = NpSqrt(NpAdd(NpSquare(grad_x), NpSquare(grad_y)))
    /\ caller_pc' = "return"
    /\ UNCHANGED <<image, kernel, padding, img, image_height, image_width,
                   kernel_height, kernel_width, output_height, output_width,
                   output, i, j, pc, err, objVars,
                   returned, grad_x, grad_y, workerVars,
                   nbVars, trainVars>>

\* return grad_x, grad_y, grad_magnitude
ReturnSobel ==
    /\ caller_pc = "return"
    /\ returned' = <<grad_x, grad_y, grad_magnitude>>
    /\ caller_pc' = "returned"
    /\ UNCHANGED <<image, kernel, padding, img, image_height, image_width,
                   kernel_height, kernel_width, output_height, output_width,
                   output, i, j, pc, err, objVars,
                   grad_x, grad_y, grad_magnitude, workerVars,
                   nbVars, trainVars>>

NextSobel ==
    \/ GetDimensions
    \/ ApplyPadding
    \/ CalcOutputDims
    \/ InitOutput
    \/ ComputeCell
    \/ NextRow
    \/ Return
    \/ AssignGradX
    \/ AssignGradY
    \/ ComputeMagnitude
    \/ ReturnSobel

SpecSobel == InitSobel /\ [][NextSobel]_vars

(***************************************************************************)
(* Calls with any padding argument, given or left out.                      *)
(***************************************************************************)
\* the padding argument at the call site: left out, or a string
PaddingArgs ==
    {[given |-> FALSE, value |-> ""]}
        \cup {[given |-> TRUE, value |-> p] : p \in {"valid", "same", "full", "SAME"}}

\* padding: str = 'valid'
BindPadding(arg) == IF arg.given THEN arg.value ELSE "valid"

ModeKernels == {NpArray(<< <<1>> >>), NpOnes(2, 2), sobel_x}

InitModes ==
    /\ image \in Images
    /\ kernel \in ModeKernels
    /\ \E arg \in PaddingArgs : padding = BindPadding(arg)
    /\ AtEntry
    /\ caller_pc = "call"
    /\ returned = << >>
    /\ grad_x = NpZeros(0, 0)
    /\ grad_y = NpZeros(0, 0)
    /\ grad_magnitude = NpZeros(0, 0)
    /\ written = << >>
    /\ inflight = << >>
    /\ NotebookIdle
    /\ TrainIdle

SpecModes == InitModes /\ [][Next]_vars

(***************************************************************************)
(* The call run to its end: the interpreter executes the next statement     *)
(* whenever there is one (single-threaded, no suspension points).           *)
(***************************************************************************)
LiveImages == CallImages \cup {NpArray(<< <<255, 0>>, <<0, 0>> >>), VerticalLine(3, 4, 1)}

InitLive ==
    /\ image \in LiveImages
    /\ kernel \in ModeKernels
    /\ padding \in Paddings
    /\ AtEntry
    /\ caller_pc = "call"
    /\ returned = << >>
    /\ grad_x = NpZeros(0, 0)
    /\ grad_y = NpZeros(0, 0)
    /\ grad_magnitude = NpZeros(0, 0)
    /\ written = << >>
    /\ inflight = << >>
    /\ NotebookIdle
    /\ TrainIdle

\* the statements outside the loop body
OtherStatements ==
    \/ GetDimensions
    \/ ApplyPadding
    \/ SkipPadding
    \/ CalcOutputDims
    \/ InitOutput
    \/ InitOutputRaises
    \/ NextRow
    \/ Return

\* the loop body as the loop counters see it: where ComputeCell can run and
\* how it moves j
LoopBodyRuns ==
    /\ pc = "loop"
    /\ i < output_height
    /\ j < output_width
    /\ j' = j + 1

\* a statement that can run does run: weak fairness on the loop body (the
\* steps that move j inside a row) and on the other statements
LiveSpec ==
    /\ InitLive
    /\ [][Next]_vars
    /\ WF_vars(OtherStatements)
    /\ WF_j(LoopBodyRuns)

(***************************************************************************)
(* The result of a whole call as a value: what the statements above leave  *)
(* in output, or the exception.                                            *)
(***************************************************************************)
Convolve2d(g, k, p) ==
    LET padded == IF p = "same"
                  THEN NpPad(g, HalfKernel(k.h), HalfKernel(k.w))
                  ELSE g
        oh == OutputDim(padded.h, k.h)
        ow == OutputDim(padded.w, k.w)
    IN  IF oh < 0 \/ ow < 0
        THEN [raised |-> TRUE, out |-> NpZeros(0, 0)]
        ELSE [raised |-> FALSE,
              out |-> [h |-> oh, w |-> ow,
                       a |-> [y \in 0..(oh - 1) |->
                                [x \in 0..(ow - 1) |-> WindowSum(padded, k, y, x)]]]]

\* the machine returns what Convolve2d gives, and raises when it raises
ResultIsConvolve2d ==
    /\ pc = "done" =>
          /\ ~Convolve2d(image, kernel, padding).raised
          /\ output = Convolve2d(image, kernel, padding).out
    /\ pc = "raised" => Convolve2d(image, kernel, padding).raised

(***************************************************************************)
(* Vocabulary of the properties.                                           *)
(***************************************************************************)
Odd(k) == k % 2 = 1

OddKernel == Odd(kernel.h) /\ Odd(kernel.w)

KernelFits == kernel.h <= image.h /\ kernel.w <= image.w

\* g has exactly h rows of exactly w columns each
HasShape(g, h, w) ==
    /\ g.h = h
    /\ g.w = w
    /\ DOMAIN g.a = 0..(h - 1)
    /\ \A y \in DOMAIN g.a : DOMAIN g.a[y] = 0..(w - 1)

\* the coordinates of the cells of g
Cells(g) == (0..(g.h - 1)) \X (0..(g.w - 1))

\* the sum over r < kh, c < kw of p[y + r][x + c] * k[r][c], by rows
RECURSIVE RowCorrelation(_, _, _, _, _, _)
RowCorrelation(p, k, y, x, r, n) ==
    IF n = 0 THEN Q(0)
    ELSE RatAdd(RowCorrelation(p, k, y, x, r, n - 1),
                RatMul(p.a[y + r][x + n - 1], k.a[r][n - 1]))

RECURSIVE Correlation(_, _, _, _, _)
Correlation(p, k, y, x, m) ==
    IF m = 0 THEN Q(0)
    ELSE RatAdd(Correlation(p, k, y, x, m - 1),
                RowCorrelation(p, k, y, x, m - 1, k.w))

\* C1: in valid mode with an odd kernel that fits the image the call never
\* raises and returns exactly H-Kh+1 rows of W-Kw+1 columns.
C1_ValidShape ==
    (padding = "valid" /\ OddKernel /\ KernelFits) =>
        /\ pc # "raised"
        /\ pc = "done" =>
              HasShape(output, image.h - kernel.h + 1, image.w - kernel.w + 1)

C1_Witness ==
    /\ pc = "done"
    /\ padding = "valid"
    /\ kernel = averaging_kernel
    /\ image = NpFull(4, 4, Q(255))
    /\ HasShape(output, 2, 2)

\* C2: in same mode with an odd kernel of any size, also one taller or wider
\* than the image, the call never raises and returns exactly H rows of W
\* columns.
C2_SameShape ==
    (padding = "same" /\ OddKernel) =>
        /\ pc # "raised"
        /\ pc = "done" => HasShape(output, image.h, image.w)

C2_Witness ==
    /\ pc = "done"
    /\ padding = "same"
    /\ OddKernel
    /\ kernel.h > image.h
    /\ kernel.w > image.w
    /\ HasShape(output, image.h, image.w)

\* C3: every cell (y, x) of a returned grid is the sum over r < Kh, c < Kw of
\* P[y+r][x+c] * K[r][c], P the image after the padding step and K the kernel
\* as stored, not mirrored.
C3_Correlation ==
    pc = "done" =>
        \A c \in Cells(output) :
            output.a[c[1]][c[2]] = Correlation(img, kernel, c[1], c[2], kernel.h)

\* sobel_x on the constant image: the left border answers +4*255; the
\* mirrored kernel would answer -4*255
C3_Witness ==
    /\ pc = "done"
    /\ padding = "same"
    /\ kernel = sobel_x
    /\ image = NpFull(3, 3, Q(255))
    /\ output.a[1][0] = Q(1020)
    /\ output.a[1][2] = Q(-1020)

\* C4: in valid mode a call with an (odd) kernel taller or wider than the
\* image never returns a grid: it ends in an error.
C4_OversizedValidFails ==
    (padding = "valid" /\ OddKernel /\ ~KernelFits) => pc # "done"

\* C5: a call with a kernel whose height or width is even or zero never
\* returns a grid, in valid and in same mode: it ends in an error.
C5_EvenKernelFails ==
    (padding \in {"valid", "same"} /\ ~OddKernel) => pc # "done"

\* the weighted sum over the window positions that fall inside the original
\* image g, the window of (y, x) starting ph rows above and pw columns left
InBoundsTerm(g, k, y, x, ph, pw, r, c) ==
    LET yy == y + r - ph
        xx == x + c - pw
    IN  IF yy >= 0 /\ yy < g.h /\ xx >= 0 /\ xx < g.w
        THEN RatMul(g.a[yy][xx], k.a[r][c])
        ELSE Q(0)

RECURSIVE InBoundsSum(_, _, _, _, _, _, _)
InBoundsSum(g, k, y, x, ph, pw, n) ==
    IF n = 0 THEN Q(0)
    ELSE RatAdd(InBoundsSum(g, k, y, x, ph, pw, n - 1),
                InBoundsTerm(g, k, y, x, ph, pw, (n - 1) \div k.w, (n - 1) % k.w))

\* C6: in same mode, once the padding step has run, the working image is the
\* argument with exactly Kh//2 rows of zeros above and below and Kw//2
\* columns of zeros left and right, and every cell of a returned grid is the
\* weighted sum over the window positions inside the original image.
C6_ZeroPadding ==
    LET ph == kernel.h \div 2
        pw == kernel.w \div 2
    IN  /\ (padding = "same" /\ pc = "dims") =>
              /\ HasShape(img, image.h + 2 * ph, image.w + 2 * pw)
              /\ \A c \in Cells(img) :
                    img.a[c[1]][c[2]] =
                        IF /\ c[1] >= ph /\ c[1] < ph + image.h
                           /\ c[2] >= pw /\ c[2] < pw + image.w
                        THEN image.a[c[1] - ph][c[2] - pw]
                        ELSE Q(0)
        /\ (padding = "same" /\ pc = "done") =>
              \A c \in Cells(output) :
                  output.a[c[1]][c[2]] =
                      InBoundsSum(image, kernel, c[1], c[2], ph, pw,
                                  kernel.h * kernel.w)

\* the laplacian at the corner of the constant image: 4*255 - 2*255, where
\* edge replication or reflection would give 0
C6_Witness ==
    /\ pc = "done"
    /\ padding = "same"
    /\ kernel = laplacian
    /\ image = NpFull(3, 3, Q(255))
    /\ output.a[0][0] = Q(510)
    /\ output.a[1][1] = Q(0)

\* C7: with the 1x1 kernel [[1]] the call, in valid and in same mode, never
\* raises and returns a grid of the image's shape whose every cell is the
\* image's cell.
C7_Identity ==
    (kernel = NpArray(<< <<1>> >>) /\ padding \in {"valid", "same"}) =>
        /\ pc # "raised"
        /\ pc = "done" =>
              /\ HasShape(output, image.h, image.w)
              /\ \A y \in 0..(image.h - 1), x \in 0..(image.w - 1) :
                    output.a[y][x] = image.a[y][x]

C7_Witness ==
    /\ pc = "done"
    /\ kernel = NpArray(<< <<1>> >>)
    /\ padding = "same"
    /\ image = NpArray(<< <<0, 255>>, <<255, 0>> >>)
    /\ output = image

\* a * g1 + b * g2 cell by cell, for two arrays of one shape
LinComb(a, g1, b, g2) ==
    [h |-> g1.h, w |-> g1.w,
     a |-> [y \in 0..(g1.h - 1) |->
              [x \in 0..(g1.w - 1) |->
                 RatAdd(RatMul(a, g1.a[y][x]), RatMul(b, g2.a[y][x]))]]]

\* the pairs (a, b) of scalars tried: integer and fractional, of both signs
ScalarPairs == {<<Q(2), Q(-1)>>, <<Q(-1), Rat(1, 2)>>}

\* the kernel of shape (h, w) whose cell (r, c) is r*w + c - 1
IndexRamp(h, w) ==
    [h |-> h, w |-> w,
     a |-> [r \in 0..(h - 1) |-> [c \in 0..(w - 1) |-> Q(r * w + c - 1)]]]

\* k read from its last cell to its first
Mirrored(k) ==
    [h |-> k.h, w |-> k.w,
     a |-> [r \in 0..(k.h - 1) |->
              [c \in 0..(k.w - 1) |-> k.a[k.h - 1 - r][k.w - 1 - c]]]]

\* the second kernels tried with the call's kernel, all of its shape
PartnerKernels == {IndexRamp(kernel.h, kernel.w), Mirrored(kernel)}

\* C8: for the call's image G, kernel K1 and mode, every partner kernel K2 of
\* K1's shape and every pair of scalars (a, b): the response to a*K1 + b*K2
\* is a times the response to K1 plus b times the response to K2, cell by
\* cell (in exact arithmetic).
C8_Linearity ==
    (pc = "done" /\ padding \in {"valid", "same"}) =>
        \A k2 \in PartnerKernels :
            LET r2 == Convolve2d(image, k2, padding)
            IN  /\ ~r2.raised
                /\ \A ab \in ScalarPairs :
                      LET r == Convolve2d(image, LinComb(ab[1], kernel, ab[2], k2),
                                          padding)
                      IN  /\ ~r.raised
                          /\ r.out = LinComb(ab[1], output, ab[2], r2.out)

\* 2*sobel_x - sobel_y at the corner of the constant image: 2*765 - 765
C8_Witness ==
    /\ pc = "done"
    /\ padding = "same"
    /\ kernel = sobel_x
    /\ image = NpFull(3, 3, Q(255))
    /\ output.a[0][0] = Q(765)
    /\ Convolve2d(image, sobel_y, padding).out.a[0][0] = Q(765)
    /\ Convolve2d(image, LinComb(Q(2), sobel_x, Q(-1), sobel_y),
                  padding).out.a[0][0] = Q(765)
    /\ Convolve2d(image, LinComb(Q(2), sobel_x, Q(-1), sobel_y),
                  padding).out.a[2][2] = Q(-765)

\* C9: with an all-zero kernel of odd shape the call, in same mode and in
\* valid mode when the kernel fits, never raises and returns the all-zero
\* grid of the mode's shape: (H, W) in same mode, (H-Kh+1, W-Kw+1) in valid.
C9_ZeroKernel ==
    (/\ kernel = NpZeros(kernel.h, kernel.w)
     /\ OddKernel
     /\ (padding = "same" \/ (padding = "valid" /\ KernelFits))) =>
        /\ pc # "raised"
        /\ pc = "done" =>
              output = IF padding = "same"
                       THEN NpZeros(image.h, image.w)
                       ELSE NpZeros(image.h - kernel.h + 1, image.w - kernel.w + 1)

C9_Witness ==
    /\ pc = "done"
    /\ padding = "same"
    /\ kernel = NpZeros(3, 1)
    /\ image = NpArray(<< <<255, 255>>, <<255, 255>> >>)
    /\ output = NpZeros(2, 2)

\* C10: the averaging kernel has every entry 1/9, and for the 3x3 grid of
\* 255s in same mode the four corner cells of the response are 255*4/9 and
\* the centre cell is 255.
C10_BoundaryCheck ==
    /\ averaging_kernel = NpFull(3, 3, Rat(1, 9))
    /\ (/\ pc = "done"
        /\ padding = "same"
        /\ kernel = averaging_kernel
        /\ image = NpFull(3, 3, Q(255))) =>
           /\ \A y \in {0, 2}, x \in {0, 2} : output.a[y][x] = Rat(255 * 4, 9)
           /\ output.a[1][1] = Q(255)

C10_Witness ==
    /\ pc = "done"
    /\ padding = "same"
    /\ kernel = averaging_kernel
    /\ kernel.a[1][1] = Rat(1, 9)
    /\ image = NpFull(3, 3, Q(255))
    /\ output.a[0][0] = Rat(1020, 9)
    /\ output.a[1][1] = Q(255)

\* g is 0 everywhere except column c, which is 255 in every row
IsVerticalLine(g, c) ==
    \A p \in Cells(g) : g.a[p[1]][p[2]] = IF p[2] = c THEN Q(255) ELSE Q(0)

\* C11: for an image that is 0 except a full vertical line of 255 in a column
\* c that is not a border, the response to sobel_x in same mode has the
\* image's shape, is not zero everywhere, and is zero in every column outside
\* {c-1, c, c+1}.
C11_SobelXLocalized ==
    \A c \in 1..(image.w - 2) :
        (/\ pc = "done"
         /\ padding = "same"
         /\ kernel = sobel_x
         /\ IsVerticalLine(image, c)) =>
            /\ HasShape(output, image.h, image.w)
            /\ \E p \in Cells(output) : output.a[p[1]][p[2]] # Q(0)
            /\ \A p \in Cells(output) :
                  p[2] \notin {c - 1, c, c + 1} => output.a[p[1]][p[2]] = Q(0)

C11_Witness ==
    /\ pc = "done"
    /\ padding = "same"
    /\ kernel = sobel_x
    /\ image = VerticalLine(3, 5, 1)
    /\ output.a[1][0] = Q(1020)
    /\ output.a[1][1] = Q(0)
    /\ output.a[1][2] = Q(-1020)
    /\ output.a[1][3] = Q(0)
    /\ output.a[1][4] = Q(0)

\* C12: no step of a call changes the caller's image or kernel; in same mode
\* the working image is a padded copy, another array than the caller's; and
\* the grid returned is the array np.zeros made in this call, not an
\* argument, also when its cells equal the image's (1x1 kernel).
C12_ArgumentsUntouched ==
    [][/\ image' = image
       /\ kernel' = kernel
       /\ (padding = "same" /\ pc' \in {"dims", "alloc", "loop", "done"}) =>
              img_obj' = "padded"
       /\ output_obj' \in {"none", "zeros"}
       /\ pc' = "done" => output_obj' = "zeros"]_vars

C12_Witness ==
    /\ pc = "done"
    /\ padding = "same"
    /\ kernel = NpArray(<< <<1>> >>)
    /\ image = NpArray(<< <<255, 0>>, <<0, 255>> >>)
    /\ output = image
    /\ img_obj = "padded"
    /\ output_obj = "zeros"

\* C13: two calls with equal (image, kernel, padding) end alike, whatever
\* calls were made before or between them: both raise, or both return and
\* the returned grids are equal.
C13_Deterministic ==
    /\ \A a \in 1..Len(returned), b \in 1..Len(returned) :
          (/\ returned[a].image = returned[b].image
           /\ returned[a].kernel = returned[b].kernel
           /\ returned[a].padding = returned[b].padding) =>
              /\ returned[a].raised = returned[b].raised
              /\ returned[a].output = returned[b].output
    /\ pc \in {"done", "raised"} =>
          \A a \in 1..Len(returned) :
              (/\ returned[a].image = image
               /\ returned[a].kernel = kernel
               /\ returned[a].padding = padding) =>
                  /\ returned[a].raised = (pc = "raised")
                  /\ pc = "done" => returned[a].output = output

\* the first and the third call are equal, the second differs in every
\* argument
C13_Witness ==
    /\ pc = "done"
    /\ Len(returned) = 2
    /\ image = NpFull(3, 3, Q(255))
    /\ kernel = sobel_x
    /\ padding = "same"
    /\ returned[1].image = image
    /\ returned[1].kernel = kernel
    /\ returned[1].padding = padding
    /\ returned[2].image # image
    /\ returned[2].kernel # kernel
    /\ returned[2].padding # padding
    /\ output.a[1][0] = Q(1020)
    /\ returned[1].output = output

\* the order in which the sequential double loop writes the cells
RowMajor(c1, c2) == c1[1] < c2[1] \/ (c1[1] = c2[1] /\ c1[2] < c2[2])

\* C14: whatever the order in which the output cells are computed, and
\* with several workers interleaved on disjoint cells, every cell written
\* holds the value the sequential row-major loop gives it, and the grid
\* returned is the grid the sequential loop returns.
C14_OrderIndependent ==
    /\ pc = "loop" =>
          \A c \in WrittenCells :
              output.a[c[1]][c[2]] = Convolve2d(image, kernel, padding).out.a[c[1]][c[2]]
    /\ pc = "done" => output = Convolve2d(image, kernel, padding).out
    /\ \A v \in Workers, w \in Workers :
          (v # w /\ inflight[v].busy /\ inflight[w].busy) =>
              <<inflight[v].i, inflight[v].j>> # <<inflight[w].i, inflight[w].j>>

\* the last cell of the grid was written first and the first cell last
C14_Witness ==
    /\ pc = "done"
    /\ padding = "same"
    /\ kernel = sobel_x
    /\ image = NpArray(<< <<0, 255, 0>>, <<255, 0, 255>> >>)
    /\ Len(written) = 6
    /\ written[1] = <<1, 2>>
    /\ written[6] = <<0, 0>>
    /\ \E n \in 1..5 : RowMajor(written[n + 1], written[n])
    /\ output.a[0][0] = Q(510)
    /\ output = Convolve2d(image, kernel, padding).out

\* one cell of the response: the statements of convolve2d for output[y, x]
ResponseAt(g, k, p, y, x) ==
    WindowSum(IF p = "same" THEN NpPad(g, HalfKernel(k.h), HalfKernel(k.w)) ELSE g,
              k, y, x)

\* the image cell q lies in the k.h x k.w window of output cell (y, x)
InWindow(k, p, y, x, q) ==
    LET ph == IF p = "same" THEN HalfKernel(k.h) ELSE 0
        pw == IF p = "same" THEN HalfKernel(k.w) ELSE 0
    IN  /\ q[1] \in (y - ph)..(y - ph + k.h - 1)
        /\ q[2] \in (x - pw)..(x - pw + k.w - 1)

Flip(v) == IF v = Q(0) THEN Q(255) ELSE Q(0)

\* g with the one cell q changed
FlipCell(g, q) == [g EXCEPT !.a[q[1]][q[2]] = Flip(@)]

\* g with every cell outside the window of output cell (y, x) changed
FlipOutside(g, k, p, y, x) ==
    [h |-> g.h, w |-> g.w,
     a |-> [r \in 0..(g.h - 1) |->
              [c \in 0..(g.w - 1) |->
                 IF InWindow(k, p, y, x, <<r, c>>) THEN g.a[r][c] ELSE Flip(g.a[r][c])]]]

\* C15: an image of the same shape that agrees with the image on the window
\* of an output cell (changed in one cell outside it, or in every cell
\* outside it) has the same response at that cell, in valid and in same mode.
C15_Locality ==
    (pc = "done" /\ padding \in {"valid", "same"}) =>
        \A c \in Cells(output) :
            /\ ResponseAt(FlipOutside(image, kernel, padding, c[1], c[2]),
                          kernel, padding, c[1], c[2]) = output.a[c[1]][c[2]]
            /\ \A q \in Cells(image) :
                  ~InWindow(kernel, padding, c[1], c[2], q) =>
                      ResponseAt(FlipCell(image, q), kernel, padding, c[1], c[2])
                          = output.a[c[1]][c[2]]

\* a 1x2 window over a 2x2 image: the two cells of the other row change
C15_Witness ==
    /\ pc = "done"
    /\ padding = "valid"
    /\ kernel = NpArray(<< <<1, 1>> >>)
    /\ image = NpArray(<< <<255, 0>>, <<0, 255>> >>)
    /\ FlipOutside(image, kernel, padding, 0, 0) = NpArray(<< <<255, 0>>, <<255, 0>> >>)
    /\ FlipOutside(image, kernel, padding, 1, 0) = NpArray(<< <<0, 255>>, <<0, 255>> >>)
    /\ output = NpArray(<< <<255>>, <<255>> >>)

\* the 3x3 identity kernel: 1 at the centre, 0 elsewhere
Identity3 == NpArray(<< <<0, 0, 0>>, <<0, 1, 0>>, <<0, 0, 0>> >>)

\* the kernel's entries: Laplacian + identity
SharpeningKernelIsSum ==
    /\ laplacian = NpArray(<< <<0, -1, 0>>, <<-1, 4, -1>>, <<0, -1, 0>> >>)
    /\ sharpening = LinComb(Q(1), laplacian, Q(1), Identity3)

\* C16: the notebook's sharpening kernel is its Laplacian plus the 3x3
\* identity kernel, and in same mode the sharpening response of a grid is,
\* cell by cell, the grid plus its Laplacian response.
C16_SharpeningIsIdentityPlusLaplacian ==
    /\ SharpeningKernelIsSum
    /\ (pc = "done" /\ padding = "same" /\ kernel = sharpening) =>
          /\ ~Convolve2d(image, laplacian, "same").raised
          /\ output = LinComb(Q(1), image, Q(1), Convolve2d(image, laplacian, "same").out)

C16_Witness ==
    /\ pc = "done"
    /\ padding = "same"
    /\ kernel = sharpening
    /\ image = NpFull(3, 3, Q(255))
    /\ Convolve2d(image, laplacian, "same").out.a[0][0] = Q(510)
    /\ Convolve2d(image, laplacian, "same").out.a[1][1] = Q(0)
    /\ output.a[0][0] = Q(765)
    /\ output.a[1][1] = Q(255)

\* the whole window of output cell (y, x) lies inside the image g and every
\* cell of it holds v
ConstantWindow(g, k, p, y, x, v) ==
    LET ph == IF p = "same" THEN HalfKernel(k.h) ELSE 0
        pw == IF p = "same" THEN HalfKernel(k.w) ELSE 0
    IN  /\ y - ph >= 0
        /\ y - ph + k.h - 1 < g.h
        /\ x - pw >= 0
        /\ x - pw + k.w - 1 < g.w
        /\ \A q \in Cells(g) : InWindow(k, p, y, x, q) => g.a[q[1]][q[2]] = v

\* the entries of the two box kernels and their sums
BoxKernelEntries ==
    /\ averaging_kernel = NpFull(3, 3, Rat(1, 9))
    /\ gaussian_blur = NpFull(5, 5, Rat(1, 25))
    /\ NpSum(averaging_kernel) = Q(1)
    /\ NpSum(gaussian_blur) = Q(1)

\* C17: the 3x3 and 5x5 box kernels of the notebook have every entry equal
\* to 1/9 and 1/25, their entries sum to 1, and the response at a cell whose
\* whole window lies in a region of constant value v of the image is v.
C17_BoxKernel ==
    /\ BoxKernelEntries
    /\ (pc = "done" /\ kernel \in {averaging_kernel, gaussian_blur}) =>
          \A c \in Cells(output) : \A v \in PixelValues :
              ConstantWindow(image, kernel, padding, c[1], c[2], v) =>
                  output.a[c[1]][c[2]] = v

\* the 5x5 kernel over a constant 5x5 image: the centre cell's window is the
\* image, the corner cell's window is not inside it
C17_Witness ==
    /\ pc = "done"
    /\ padding = "same"
    /\ kernel = gaussian_blur
    /\ image = NpFull(5, 5, Q(255))
    /\ ConstantWindow(image, kernel, padding, 2, 2, Q(255))
    /\ ~ConstantWindow(image, kernel, padding, 0, 0, Q(255))
    /\ output.a[2][2] = Q(255)
    /\ output.a[0][0] = Rat(459, 5)

\* the square of the surd coef * sqrt(rad)
SurdSquare(m) == RatMul(RatMul(m.coef, m.coef), Q(m.rad))

\* C18: apply_sobel_filters returns grad_x, grad_y and the magnitude, all
\* of the shape of its image; the two gradients are the same-mode responses
\* to sobel_x and sobel_y; at every cell magnitude^2 = grad_x^2 + grad_y^2,
\* the magnitude is not negative, and it is 0 exactly where both gradients
\* are 0.
C18_SobelMagnitude ==
    caller_pc = "returned" =>
        /\ Len(returned) = 3
        /\ returned[1] = Convolve2d(image, sobel_x, "same").out
        /\ returned[2] = Convolve2d(image, sobel_y, "same").out
        /\ \A n \in 1..3 : HasShape(returned[n], image.h, image.w)
        /\ \A c \in Cells(image) :
              LET gx == returned[1].a[c[1]][c[2]]
                  gy == returned[2].a[c[1]][c[2]]
                  m == returned[3].a[c[1]][c[2]]
              IN  /\ SurdSquare(m) = RatAdd(RatMul(gx, gx), RatMul(gy, gy))
                  /\ m.coef.n >= 0
                  /\ m.rad >= 1
                  /\ (m.coef = Q(0)) <=> (gx = Q(0) /\ gy = Q(0))

\* a corner: both gradients non-zero at (0, 0), both zero at (1, 1)
C18_Witness ==
    /\ caller_pc = "returned"
    /\ image = NpArray(<< <<255, 0>>, <<0, 0>> >>)
    /\ returned[1].a[0][0] = Q(0)
    /\ returned[1].a[0][1] = Q(-510)
    /\ returned[1].a[1][1] = Q(-255)
    /\ returned[2].a[1][1] = Q(-255)
    /\ returned[3].a[1][1] = [coef |-> Q(255), rad |-> 2]
    /\ returned[3].a[0][1] = [coef |-> Q(510), rad |-> 1]
    /\ returned[3].a[0][0] = [coef |-> Q(0), rad |-> 1]

\* g.T
Transpose(g) ==
    [h |-> g.w, w |-> g.h,
     a |-> [y \in 0..(g.w - 1) |-> [x \in 0..(g.h - 1) |-> g.a[x][y]]]]

\* the Y kernel that goes with an X kernel
YKernelOf(k) == IF k = sobel_x THEN sobel_y ELSE prewitt_y

\* the Y kernels are the transposes of the X kernels
YKernelsAreTransposes ==
    /\ sobel_y = Transpose(sobel_x)
    /\ prewitt_y = Transpose(prewitt_x)

\* C19: sobel_y is the transpose of sobel_x and prewitt_y the transpose of
\* prewitt_x; a call with the transposed image and the Y kernel returns the
\* transpose of what the call with the image and the X kernel returns, in
\* either mode, and raises when that call raises.
C19_TransposedKernels ==
    /\ YKernelsAreTransposes
    /\ (pc = "done" /\ kernel \in {sobel_x, prewitt_x}) =>
          /\ ~Convolve2d(Transpose(image), YKernelOf(kernel), padding).raised
          /\ Convolve2d(Transpose(image), YKernelOf(kernel), padding).out = Transpose(output)
    /\ (pc = "raised" /\ kernel \in {sobel_x, prewitt_x}) =>
          Convolve2d(Transpose(image), YKernelOf(kernel), padding).raised

\* a 3x4 image whose response is 1x2, and 2x1 for the transposed image
C19_Witness ==
    /\ pc = "done"
    /\ padding = "valid"
    /\ kernel = sobel_x
    /\ image = VerticalLine(3, 4, 1)
    /\ output = NpArray(<< <<0, -1020>> >>)
    /\ Convolve2d(Transpose(image), sobel_y, padding).out = NpArray(<< <<0>>, <<-1020>> >>)

\* the derivative kernels of the notebook
DerivativeKernels == {sobel_x, sobel_y, prewitt_x, prewitt_y, laplacian}

DerivativeKernelsSumToZero == \A k \in DerivativeKernels : NpSum(k) = Q(0)

\* every cell of g holds v
IsConstant(g, v) == \A q \in Cells(g) : g.a[q[1]][q[2]] = v

\* C20: the entries of sobel_x, sobel_y, prewitt_x, prewitt_y and the
\* Laplacian sum to 0; the response to one of them is 0 at every cell whose
\* whole window lies inside the image on cells of one value, so in same mode
\* over a constant non-zero image it is 0 at every cell at least one cell
\* away from the border.
C20_ZeroSumKernels ==
    /\ DerivativeKernelsSumToZero
    /\ (pc = "done" /\ kernel \in DerivativeKernels) =>
          /\ \A c \in Cells(output) : \A v \in PixelValues :
                ConstantWindow(image, kernel, padding, c[1], c[2], v) =>
                    output.a[c[1]][c[2]] = Q(0)
          /\ (padding = "same" /\ IsConstant(image, Q(255))) =>
                \A c \in Cells(output) :
                    (/\ c[1] >= 1 /\ c[1] <= image.h - 2
                     /\ c[2] >= 1 /\ c[2] <= image.w - 2) =>
                        output.a[c[1]][c[2]] = Q(0)

\* a constant 4x4 image: 0 at the four inner cells, not 0 on the border
C20_Witness ==
    /\ pc = "done"
    /\ padding = "same"
    /\ kernel = laplacian
    /\ image = NpFull(4, 4, Q(255))
    /\ output.a[1][1] = Q(0)
    /\ output.a[2][2] = Q(0)
    /\ output.a[0][0] = Q(510)
    /\ output.a[0][1] = Q(255)

\* a call that leaves the padding out runs with 'valid'
DefaultPaddingIsValid ==
    /\ BindPadding([given |-> FALSE, value |-> ""]) = "valid"
    /\ \A arg \in PaddingArgs : arg.given => BindPadding(arg) = arg.value

\* C21: the padding argument is not validated: left out it is 'valid', and
\* with any string other than exactly 'same' ('full', 'SAME', ...) the call
\* never pads, raises no error of its own, and ends exactly as the call in
\* valid mode ends.
C21_PaddingNotValidated ==
    /\ DefaultPaddingIsValid
    /\ padding # "same" =>
          /\ img = image
          /\ img_obj = "image"
          /\ pc = "done" =>
                /\ ~Convolve2d(image, kernel, "valid").raised
                /\ output = Convolve2d(image, kernel, "valid").out
          /\ pc = "raised" => Convolve2d(image, kernel, "valid").raised
          /\ err # "none" => pc = "raised"

\* 'SAME' on a 3x4 image with a 3x3 kernel: the 1x2 grid of valid mode
C21_Witness ==
    /\ pc = "done"
    /\ padding = "SAME"
    /\ kernel = sobel_x
    /\ image = VerticalLine(3, 4, 1)
    /\ output = NpArray(<< <<0, -1020>> >>)
    /\ Convolve2d(image, kernel, "same").out # output

Even(n) == n % 2 = 0

ExcessH == kernel.h - image.h

ExcessW == kernel.w - image.w

\* C23: in valid mode, a kernel one taller or one wider than the image (and
\* not more in either dimension) makes the call return an empty grid of 0
\* rows or 0 columns, no cell ever computed; a kernel two or more taller or
\* wider gives a negative output dimension and the call ends in the error of
\* the allocation, no grid allocated and no cell computed.
C23_OversizedValid ==
    padding = "valid" =>
        /\ ((ExcessH = 1 \/ ExcessW = 1) /\ ExcessH <= 1 /\ ExcessW <= 1) =>
              /\ pc # "raised"
              /\ err = "none"
              /\ Cells(output) = {}
              /\ j = 0
              /\ pc \in {"loop", "done"} =>
                    /\ output = NpZeros(image.h - kernel.h + 1, image.w - kernel.w + 1)
                    /\ output.h = 0 \/ output.w = 0
        /\ (ExcessH >= 2 \/ ExcessW >= 2) =>
              /\ pc \notin {"loop", "done"}
              /\ output_obj = "none"
              /\ output = NpZeros(0, 0)
              /\ pc = "alloc" => (output_height < 0 \/ output_width < 0)
              /\ pc = "raised" => err = "ValueError"

\* a 2x1 kernel over a 1x2 image: a grid of 0 rows and 2 columns is returned
C23_Witness ==
    /\ pc = "done"
    /\ padding = "valid"
    /\ image = NpArray(<< <<255, 0>> >>)
    /\ kernel = NpArray(<< <<1>>, <<1>> >>)
    /\ output = NpZeros(0, 2)
    /\ output.h = 0
    /\ output.w = 2

\* cell c1 comes before cell c2 in row-major order
Before(c1, c2) == c1[1] < c2[1] \/ (c1[1] = c2[1] /\ c1[2] < c2[2])

\* in the loop at (i, j): the cells before (i, j) hold their final value,
\* the others still hold the 0 of np.zeros
RowMajorProgress ==
    pc = "loop" =>
        \A c \in Cells(output) :
            output.a[c[1]][c[2]] =
                IF Before(c, <<i, j>>)
                THEN Convolve2d(image, kernel, padding).out.a[c[1]][c[2]]
                ELSE Q(0)

\* one step of the loop: the cell (i, j) is computed and j moves on, or the
\* row is exhausted and i moves on, or the rows are exhausted and the call
\* returns; only a computation changes output, and only at (i, j)
LoopStep ==
    pc = "loop" =>
        \/ /\ i < output_height
           /\ j < output_width
           /\ pc' = "loop"
           /\ i' = i
           /\ j' = j + 1
           /\ \A c \in Cells(output) : c # <<i, j>> => output'.a[c[1]][c[2]] = output.a[c[1]][c[2]]
           /\ output'.a[i][j] = WindowSum(img, kernel, i, j)
        \/ /\ i < output_height
           /\ j = output_width
           /\ pc' = "loop"
           /\ i' = i + 1
           /\ j' = 0
           /\ output' = output
        \/ /\ i = output_height
           /\ j = 0
           /\ pc' = "done"
           /\ i' = i
           /\ j' = j
           /\ output' = output

\* C24: every call ends (it returns or raises); in the loop the cells are
\* computed one per step in row-major order, each written once at its turn
\* and no other cell touched, so at (i, j) exactly i * output_width + j
\* cells have been computed and at the return all output_height *
\* output_width of them, none left at the initial 0 uncomputed.
C24_LoopTerminates ==
    /\ <>(pc \in {"done", "raised"})
    /\ [][LoopStep]_vars
    /\ []RowMajorProgress
    /\ [](pc = "done" =>
            /\ i = output_height
            /\ output = Convolve2d(image, kernel, padding).out)

\* a 2x2 grid returned with four different cells
C24_Witness ==
    /\ pc = "done"
    /\ padding = "same"
    /\ kernel = sobel_x
    /\ image = NpArray(<< <<255, 0>>, <<0, 0>> >>)
    /\ i = 2
    /\ output_width = 2
    /\ output = NpArray(<< <<0, -510>>, <<0, -255>> >>)

\* ---------------------------------------------------------------------
\* The notebooks, run cell by cell.  A cell is a sequence of statements;
\* a statement is the sequence of its effects on the kernel's namespace,
\* in the order Python evaluates them: the global names it reads, the
\* calls of convolve2d it makes (by the name of the kernel argument), the
\* lines it prints and the names it binds.  A def or class statement binds
\* its name without running its body; a call runs the body's reads.
\* ---------------------------------------------------------------------

Rd(n) == [op |-> "read", name |-> n]
Bd(n) == [op |-> "bind", name |-> n]
Cv(n) == [op |-> "call convolve2d", name |-> n]
Pr(t) == [op |-> "print", name |-> t]

\* a step whose success depends on the machine the notebook runs on; it
\* raises the named error when the machine lacks what it needs
Env(e) == [op |-> "environment", name |-> e]

Rds(ns) == [k \in 1..Len(ns) |-> Rd(ns[k])]
Bds(ns) == [k \in 1..Len(ns) |-> Bd(ns[k])]
Stmt(l, evs) == [line |-> l, events |-> evs]
Cell(l, stmts) == [line |-> l, stmts |-> stmts]

\* name = expression over the names rs
Assign(l, rs, n) == Stmt(l, Rds(rs) \o <<Bd(n)>>)

\* an expression statement over the names rs
Use(l, rs) == Stmt(l, Rds(rs))

\* def name(...): / class name(...):
Def(l, n) == Stmt(l, <<Bd(n)>>)

\* target = convolve2d(<expression over rs>, k, padding=...)
Conv(l, rs, k, target) ==
    Stmt(l, Rds(<<"convolve2d">> \o rs \o <<k>>) \o <<Cv(k), Bd(target)>>)

\* the effect of the events evs[k..] on st = [names, calls, out, error]:
\* reading a name that is not bound raises NameError and ends the statement
RECURSIVE RunEvents(_, _, _, _)
RunEvents(evs, k, st, envok) ==
    IF k > Len(evs) \/ st.error # "none" THEN st
    ELSE LET e == evs[k]
             st2 == CASE e.op = "read" ->
                            IF e.name \in st.names THEN st
                            ELSE [st EXCEPT !.error = "NameError"]
                      [] e.op = "bind" -> [st EXCEPT !.names = @ \cup {e.name}]
                      [] e.op = "call convolve2d" ->
                            [st EXCEPT !.calls = Append(@, e.name)]
                      [] e.op = "print" -> [st EXCEPT !.out = Append(@, e.name)]
                      [] e.op = "environment" ->
                            IF envok THEN st ELSE [st EXCEPT !.error = e.name]
         IN  RunEvents(evs, k + 1, st2, envok)

\* ---- src/lecture_3/CEx4_Convolutions_&_Filters.ipynb ----

ImportsCell ==
    Cell(43, << Stmt(43, <<Bd("np")>>), Stmt(44, <<Bd("plt")>>),
                Stmt(45, <<Bd("Image")>>), Stmt(46, <<Bd("requests")>>),
                Stmt(47, <<Bd("BytesIO")>>), Stmt(48, <<Bd("Tuple")>>),
                Use(51, <<"plt">>), Use(52, <<"plt">>) >>)

TestImagesCell ==
    Cell(74, << Def(74, "create_test_images"),
                Assign(126, <<"create_test_images", "np">>, "test_images"),
                Stmt(129, Rds(<<"plt">>) \o Bds(<<"fig", "axes">>)),
                Stmt(130, Rds(<<"axes", "test_images">>) \o Bds(<<"ax", "name", "img">>)),
                Use(134, <<"plt">>), Use(135, <<"plt">>) >>)

Convolve2dCell ==
    Cell(157, << Stmt(157, Rds(<<"np">>) \o <<Bd("convolve2d")>>) >>)

AveragingKernelCell ==
    Cell(202, << Assign(202, <<"np">>, "averaging_kernel"),
                 Stmt(203, <<Pr("Averaging kernel:")>>),
                 Use(204, <<"averaging_kernel">>) >>)

AveragingSameCell ==
    Cell(216, << Use(216, <<"test_images">>),
                 Conv(217, <<"test_images">>, "averaging_kernel", "result"),
                 Use(218, <<"result">>),
                 Stmt(220, Rds(<<"plt">>) \o Bds(<<"fig", "ax1", "ax2">>)),
                 Use(221, <<"ax1", "test_images">>),
                 Use(224, <<"ax2", "result">>),
                 Use(227, <<"plt">>) >>)

AveragingValidCell ==
    Cell(239, << Use(239, <<"test_images">>),
                 Conv(240, <<"test_images">>, "averaging_kernel", "result"),
                 Use(241, <<"result">>),
                 Stmt(243, Rds(<<"plt">>) \o Bds(<<"fig", "ax1", "ax2">>)),
                 Use(244, <<"ax1", "test_images">>),
                 Use(247, <<"ax2", "result">>),
                 Use(250, <<"plt">>) >>)

SobelKernelsCell ==
    Cell(279, << Assign(279, <<"np">>, "sobel_x"),
                 Assign(283, <<"np">>, "sobel_y"),
                 Stmt(287, <<Pr("Sobel X (Vertical Edge Detector):")>>),
                 Use(288, <<"sobel_x">>),
                 Stmt(289, <<Pr("Sobel Y (Horizontal Edge Detector):")>>),
                 Use(290, <<"sobel_y">>) >>)

\* the body of apply_sobel_filters(image), lines 311-317
ApplySobelBody ==
    Rds(<<"convolve2d", "sobel_x">>) \o <<Cv("sobel_x")>>
        \o Rds(<<"convolve2d", "sobel_y">>) \o <<Cv("sobel_y")>>
        \o Rds(<<"np">>)

\* grad_x, grad_y, grad_mag = apply_sobel_filters(img), one pass of the
\* loop of lines 320-322 and the plots of the pass
SobelPass ==
    << Assign(321, <<"test_images">>, "img"),
       Stmt(322, Rds(<<"apply_sobel_filters", "img">>) \o ApplySobelBody
                     \o Bds(<<"grad_x", "grad_y", "grad_mag">>)),
       Use(324, <<"plt", "img", "grad_x", "grad_y", "grad_mag">>) >>

ApplySobelCell ==
    Cell(301, << Stmt(301, Rds(<<"np", "Tuple">>) \o <<Bd("apply_sobel_filters")>>),
                 Stmt(320, <<Bd("img_name")>>) >>
              \o SobelPass \o SobelPass \o SobelPass)

PrewittCell ==
    Cell(364, << Assign(364, <<"np">>, "prewitt_x"),
                 Assign(368, <<"np">>, "prewitt_y"),
                 Assign(373, <<"test_images">>, "img"),
                 Conv(375, <<"img">>, "sobel_x", "sobel_result"),
                 Conv(376, <<"img">>, "prewitt_x", "prewitt_result"),
                 Stmt(378, Rds(<<"plt">>) \o Bds(<<"fig", "axes">>)),
                 Use(379, <<"axes", "img">>),
                 Use(381, <<"axes", "sobel_result">>),
                 Use(383, <<"axes", "prewitt_result">>),
                 Use(388, <<"plt">>), Use(389, <<"plt">>) >>)

\* the rest of the Question 1 cell, after the places left for the kernels
Question1Uses ==
    << Assign(420, <<"test_images">>, "img"),
       Conv(422, <<"img">>, "sobel_diag1", "diag1_result"),
       Conv(423, <<"img">>, "sobel_diag2", "diag2_result"),
       Stmt(425, Rds(<<"plt">>) \o Bds(<<"fig", "axes">>)),
       Use(426, <<"axes", "img">>),
       Use(428, <<"axes", "diag1_result">>),
       Use(430, <<"axes", "diag2_result">>),
       Use(432, <<"axes", "np", "diag1_result", "diag2_result">>),
       Use(437, <<"plt">>), Use(438, <<"plt">>) >>

\* the Question 1 cell with the two assignments written in
Question1Cell_Solved ==
    Cell(411, << Assign(413, <<"np">>, "sobel_diag1"),
                 Assign(416, <<"np">>, "sobel_diag2") >> \o Question1Uses)

\* the Question 1 cell as shipped: lines 411-418 are comments
\* ("# sobel_diag1 = ?", "# sobel_diag2 = ?")
Question1Cell == Cell(411, Question1Uses)

\* the Question 2 cell as shipped: comments only
Question2Cell == Cell(467, << >>)

VisualizeCornerDefCell ==
    Cell(482, << Def(482, "visualize_corner_detection") >>)

\* the body of visualize_corner_detection(img), lines 483-517
VisualizeCornerBody ==
    Rds(<<"plt">>)
        \o Rds(<<"corner_top_left", "corner_top_right",
                 "corner_bottom_left", "corner_bottom_right">>)
        \o Rds(<<"convolve2d">>) \o <<Cv("filter_kernel")>>
        \o Rds(<<"convolve2d">>) \o <<Cv("filter_kernel")>>
        \o Rds(<<"convolve2d">>) \o <<Cv("filter_kernel")>>
        \o Rds(<<"convolve2d">>) \o <<Cv("filter_kernel")>>
        \o Rds(<<"np">>)
        \o Rds(<<"convolve2d">>) \o <<Cv("filter_kernel")>>
        \o Rds(<<"convolve2d">>) \o <<Cv("filter_kernel")>>
        \o Rds(<<"convolve2d">>) \o <<Cv("filter_kernel")>>
        \o Rds(<<"convolve2d">>) \o <<Cv("filter_kernel")>>
        \o Rds(<<"plt">>)

VisualizeCornersCall(l) ==
    Stmt(l, Rds(<<"visualize_corner_detection", "img">>) \o VisualizeCornerBody)

CornersOnCornersCell ==
    Cell(529, << Assign(529, <<"test_images">>, "img"), VisualizeCornersCall(530) >>)

CornersOnSquareCell ==
    Cell(552, << Assign(552, <<"test_images">>, "img"), VisualizeCornersCall(553) >>)

\* the Question 3 cell as shipped: comments, then the call
Question3Cell ==
    Cell(573, << Assign(584, <<"test_images">>, "img"), VisualizeCornersCall(585) >>)

\* the Question 4 cell as shipped: "# log_filter = ?" is a comment
Question4Cell ==
    Cell(615, << Assign(627, <<"test_images">>, "img"),
                 Conv(630, <<"img">>, "log_filter", "log_result"),
                 Stmt(633, Rds(<<"apply_sobel_filters", "img">>) \o ApplySobelBody
                               \o Bds(<<"edges_x", "edges_y", "edges_mag">>)),
                 Stmt(635, Rds(<<"plt">>) \o Bds(<<"fig", "axes">>)),
                 Use(637, <<"axes", "img">>),
                 Use(640, <<"axes", "edges_mag">>),
                 Use(643, <<"axes", "log_result">>),
                 Use(650, <<"plt">>), Use(651, <<"plt">>) >>)

RealImageDefCell ==
    Cell(668, << Def(670, "create_real_test_image") >>)

RealImageCell ==
    Cell(705, << Assign(705, <<"create_real_test_image", "np">>, "real_img") >>)

ShowRealImageCell ==
    Cell(716, << Use(716, <<"plt">>), Use(717, <<"plt", "real_img">>),
                 Use(720, <<"plt">>) >>)

\* one pass of the loop of lines 752-756 over the five filters
AllFiltersPass ==
    << Stmt(752, Rds(<<"filters">>) \o Bds(<<"idx", "name", "kernel">>)),
       Conv(753, <<"real_img">>, "kernel", "result"),
       Use(754, <<"axes", "result">>) >>

AllFiltersCell ==
    Cell(736, << Assign(737, <<"sobel_x", "sobel_y", "np">>, "filters"),
                 Stmt(745, Rds(<<"plt">>) \o Bds(<<"fig", "axes">>)),
                 Assign(746, <<"axes">>, "axes"),
                 Use(748, <<"axes", "real_img">>) >>
              \o AllFiltersPass \o AllFiltersPass \o AllFiltersPass
              \o AllFiltersPass \o AllFiltersPass
              \o << Use(758, <<"plt">>), Use(759, <<"plt">>) >>)

VisualizeFilterDefCell ==
    Cell(808, << Def(808, "visualize_filter") >>)

\* the body of visualize_filter(kernel, title), lines 809-835
VisualizeFilterBody == Rds(<<"plt", "np">>)

VisualizeFiltersCell ==
    Cell(841, << Stmt(842, Rds(<<"visualize_filter", "sobel_x">>) \o VisualizeFilterBody),
                 Stmt(843, Rds(<<"visualize_filter", "sobel_y">>) \o VisualizeFilterBody),
                 Stmt(844, Rds(<<"visualize_filter", "sobel_diag1">>) \o VisualizeFilterBody),
                 Stmt(845, Rds(<<"visualize_filter", "corner_top_left">>) \o VisualizeFilterBody) >>)

\* the code cells of the filters notebook, top to bottom
FiltersNotebook ==
    << ImportsCell, TestImagesCell, Convolve2dCell, AveragingKernelCell,
       AveragingSameCell, AveragingValidCell, SobelKernelsCell, ApplySobelCell,
       PrewittCell, Question1Cell, Question2Cell, VisualizeCornerDefCell,
       CornersOnCornersCell, CornersOnSquareCell, Question3Cell, Question4Cell,
       RealImageDefCell, RealImageCell, ShowRealImageCell, AllFiltersCell,
       VisualizeFilterDefCell, VisualizeFiltersCell >>

\* ---- src/lecture_2/CEx3 - Pytorch_Perceptron - Exercise.ipynb ----
\* The libraries imported at lines 88-97 are taken to be installed; the
\* GPU the first cell asks for, torchviz (its install line is not part of
\* the notebook) and the onnx exporter depend on the machine.

GpuCheckCell ==
    Cell(59, << Stmt(59, <<Env("ModuleNotFoundError"), Bd("tf")>>),
                Assign(60, <<"tf">>, "device_name"),
                Stmt(61, Rds(<<"device_name">>) \o <<Env("SystemError")>>),
                Stmt(63, Rds(<<"device_name">>) \o <<Pr("Found GPU at: /device:GPU:0")>>) >>)

TorchImportsCell ==
    Cell(88, << Stmt(88, <<Bd("torch")>>), Stmt(89, <<Bd("nn")>>),
                Stmt(90, <<Bd("optim")>>), Stmt(91, <<Bd("F")>>),
                Stmt(92, <<Bd("np")>>), Stmt(93, <<Bd("plt")>>),
                Stmt(94, <<Bd("sns")>>), Stmt(95, <<Bd("make_classification")>>),
                Stmt(96, <<Bd("train_test_split")>>), Stmt(97, <<Bd("StandardScaler")>>),
                Use(100, <<"torch">>), Use(101, <<"np">>),
                Assign(104, <<"torch">>, "device"),
                Use(105, <<"device">>), Use(106, <<"torch">>),
                Use(109, <<"plt">>), Use(110, <<"sns">>) >>)

TensorDemoCell ==
    Cell(130, << Stmt(131, <<Pr("NumPy vs PyTorch comparison:")>>),
                 Assign(135, <<"np">>, "np_array"),
                 Use(136, <<"np_array">>),
                 Assign(140, <<"torch", "np_array">>, "torch_tensor"),
                 Use(141, <<"torch_tensor">>),
                 Use(147, <<"torch_tensor">>),
                 Stmt(151, <<Pr("Automatic differentiation demo:")>>),
                 Assign(152, <<"torch">>, "x"),
                 Assign(153, <<"x">>, "y"),
                 Assign(154, <<"y">>, "z"),
                 Use(156, <<"x">>), Use(157, <<"y">>), Use(158, <<"z">>),
                 Use(161, <<"z">>), Use(162, <<"x">>),
                 Stmt(163, <<Pr("Expected: [2*1, 2*2] = [2, 4]")>>) >>)

PerceptronClassCell ==
    Cell(183, << Stmt(183, Rds(<<"nn">>) \o <<Bd("SimplePerceptron")>>),
                 Assign(194, <<"SimplePerceptron", "nn">>, "perceptron"),
                 Stmt(195, <<Pr("Simple Perceptron created!")>>),
                 Use(196, <<"perceptron">>),
                 Stmt(199, Rds(<<"perceptron">>) \o Bds(<<"name", "param">>)),
                 Assign(203, <<"torch">>, "test_input"),
                 Assign(204, <<"perceptron", "test_input">>, "output"),
                 Use(205, <<"test_input">>), Use(206, <<"output">>) >>)

\* the exercise cell of line 230 as shipped: a comment only
ExerciseCell == Cell(230, << >>)

TorchvizCell ==
    Cell(241, << Stmt(241, <<Env("ModuleNotFoundError"), Bd("make_dot"),
                             Bd("make_dot_from_trace")>>),
                 Use(242, <<"make_dot", "perceptron", "test_input", "perceptron">>) >>)

OnnxCell ==
    Cell(273, << Stmt(273, <<Bd("input_names")>>),
                 Stmt(274, <<Bd("output_names")>>),
                 Stmt(275, Rds(<<"torch", "perceptron", "test_input",
                                 "input_names", "output_names">>)
                               \o <<Env("ModuleNotFoundError")>>) >>)

\* the training loop of lines 339-354 as one statement of the cell
TrainingLoopStmt ==
    Stmt(339, Rds(<<"num_epochs", "model", "X_and", "criterion", "y_and",
                    "optimizer", "losses">>)
                  \o Bds(<<"epoch", "outputs", "loss">>)
                  \o << Pr("Epoch [20/100]"), Pr("Epoch [40/100]"),
                        Pr("Epoch [60/100]"), Pr("Epoch [80/100]"),
                        Pr("Epoch [100/100]") >>)

TrainingCell ==
    Cell(313, << Assign(314, <<"torch">>, "X_and"),
                 Assign(319, <<"torch">>, "y_and"),
                 Stmt(321, <<Pr("AND Gate Data:")>>),
                 Use(322, <<"X_and">>), Use(323, <<"y_and">>),
                 Assign(326, <<"SimplePerceptron", "nn">>, "model"),
                 Assign(327, <<"nn">>, "criterion"),
                 Assign(328, <<"optim", "model">>, "optimizer"),
                 Use(330, <<"model">>), Use(331, <<"criterion">>),
                 Use(332, <<"optimizer">>),
                 Stmt(335, <<Bd("num_epochs")>>),
                 Stmt(336, <<Bd("losses")>>),
                 Stmt(338, <<Pr("Training...")>>),
                 TrainingLoopStmt,
                 Stmt(357, <<Pr("Testing trained model:")>>),
                 Stmt(358, Rds(<<"torch", "model", "X_and">>) \o <<Bd("test_outputs")>>
                               \o Rds(<<"torch", "test_outputs">>) \o <<Bd("predictions")>>
                               \o Rds(<<"X_and">>) \o <<Bd("i")>>
                               \o Rds(<<"X_and", "y_and", "predictions", "torch",
                                        "test_outputs">>)),
                 Use(368, <<"plt">>), Use(369, <<"plt", "losses">>),
                 Use(374, <<"plt">>) >>)

\* the Question 1 cell of line 389 as shipped: a comment only
PerceptronQuestion1Cell == Cell(389, << >>)

DatasetCell ==
    Cell(409, << Stmt(410, Rds(<<"make_classification">>) \o Bds(<<"X", "y">>)),
                 Stmt(418, Rds(<<"train_test_split", "X", "y">>)
                               \o Bds(<<"X_train", "X_test", "y_train", "y_test">>)),
                 Assign(421, <<"StandardScaler">>, "scaler"),
                 Assign(422, <<"scaler", "X_train">>, "X_train_scaled"),
                 Assign(423, <<"scaler", "X_test">>, "X_test_scaled"),
                 Assign(426, <<"torch", "X_train_scaled">>, "X_train_tensor"),
                 Assign(427, <<"torch", "y_train">>, "y_train_tensor"),
                 Assign(428, <<"torch", "X_test_scaled">>, "X_test_tensor"),
                 Assign(429, <<"torch", "y_test">>, "y_test_tensor"),
                 Use(431, <<"X_train_tensor">>), Use(432, <<"X_test_tensor">>),
                 Use(433, <<"X">>), Use(434, <<"np", "y">>) >>)

\* the Question 2 cell of lines 445-446 as shipped: comments only
PerceptronQuestion2Cell == Cell(445, << >>)

InspectModelCell ==
    Cell(471, << Stmt(472, <<Pr("Model Architecture:")>>),
                 Use(473, <<"model">>),
                 Stmt(476, Rds(<<"model">>) \o Bds(<<"name", "param">>)),
                 Assign(485, <<"model">>, "weights"),
                 Assign(486, <<"weights", "weights">>, "feature_importance"),
                 Use(488, <<"plt">>), Use(489, <<"plt", "feature_importance">>),
                 Use(494, <<"plt">>),
                 Assign(498, <<"model">>, "total_params"),
                 Assign(499, <<"model">>, "trainable_params"),
                 Use(500, <<"total_params">>), Use(501, <<"trainable_params">>),
                 Use(502, <<"total_params">>) >>)

\* the save and load cell as shipped:
\*   loaded_model = RobustPerceptron(input_size=X.shape[1])
SaveLoadCell ==
    Cell(517, << Stmt(518, <<Bd("model_path")>>),
                 Use(521, <<"torch", "model", "model_path">>),
                 Stmt(522, Rds(<<"model_path">>)
                               \o <<Pr("Model saved to perceptron_model.pth")>>),
                 Assign(525, <<"RobustPerceptron", "X">>, "loaded_model"),
                 Use(528, <<"loaded_model", "torch", "model_path">>),
                 Use(529, <<"loaded_model">>),
                 Stmt(531, <<Pr("Model loaded successfully!")>>) >>)

\* the Question 3 cell of line 547 as shipped: a comment only
PerceptronQuestion3Cell == Cell(547, << >>)

CompleteModelCell ==
    Cell(553, << Use(554, <<"torch", "model">>),
                 Assign(555, <<"torch">>, "complete_loaded_model"),
                 Stmt(556, <<Pr("Complete model saved and loaded as well!")>>),
                 Stmt(559, <<Bd("os")>>),
                 Use(560, <<"os", "model_path">>),
                 Use(561, <<"os">>),
                 Stmt(562, <<Pr("Temporary files cleaned up.")>>) >>)

SpeedCell ==
    Cell(587, << Stmt(588, <<Bd("time")>>),
                 Assign(591, <<"torch">>, "large_X"),
                 Assign(592, <<"torch">>, "large_y"),
                 Assign(595, <<"SimplePerceptron", "nn">>, "cpu_model"),
                 Assign(596, <<"cpu_model">>, "cpu_model"),
                 Assign(597, <<"large_X">>, "cpu_X"),
                 Assign(598, <<"large_y">>, "cpu_y"),
                 Stmt(600, <<Bd("NPASSES")>>),
                 Assign(602, <<"time">>, "start_time"),
                 Stmt(603, Rds(<<"NPASSES", "cpu_model", "cpu_X", "F", "cpu_y">>)
                               \o Bds(<<"_", "output", "loss">>)),
                 Assign(607, <<"time", "start_time">>, "cpu_time"),
                 Use(609, <<"NPASSES", "cpu_time">>),
                 Use(612, <<"torch">>),
                 Use(636, <<"torch">>) >>)

ComparisonCell ==
    Cell(656, << Stmt(657, <<Pr("NumPy vs PyTorch Comparison")>>),
                 Stmt(660, <<Bd("comparison_table")>>),
                 Stmt(702, <<Bd("pytorch_code")>>),
                 Use(713, <<"pytorch_code">>),
                 Stmt(716, <<Bd("advantages")>>),
                 Stmt(726, Rds(<<"advantages">>) \o <<Bd("advantage")>>) >>)

\* the last cell of the notebook: empty
EmptyCell == Cell(792, << >>)

\* the code cells of the perceptron notebook, top to bottom
PerceptronNotebook ==
    << GpuCheckCell, TorchImportsCell, TensorDemoCell, PerceptronClassCell,
       ExerciseCell, TorchvizCell, OnnxCell, TrainingCell,
       PerceptronQuestion1Cell, DatasetCell, PerceptronQuestion2Cell,
       InspectModelCell, SaveLoadCell, PerceptronQuestion3Cell,
       CompleteModelCell, SpeedCell, ComparisonCell, EmptyCell >>

\* ---- running a notebook ----

FiltersPath == "src/lecture_3/CEx4_Convolutions_&_Filters.ipynb"
PerceptronPath == "src/lecture_2/CEx3 - Pytorch_Perceptron - Exercise.ipynb"

CodeCells(nb) == IF nb = FiltersPath THEN FiltersNotebook ELSE PerceptronNotebook

\* "run all" stops at the first cell that raises; run "cell by cell", the
\* reader goes on to the next cell after an error
RunModes == {"run all", "cell by cell"}

InitNotebook ==
    /\ image = NpArray(<< <<0>> >>)
    /\ kernel = NpArray(<< <<1>> >>)
    /\ padding = "valid"
    /\ AtEntry
    /\ caller_pc = "call"
    /\ returned = << >>
    /\ grad_x = NpZeros(0, 0)
    /\ grad_y = NpZeros(0, 0)
    /\ grad_magnitude = NpZeros(0, 0)
    /\ written = << >>
    /\ inflight = << >>
    /\ TrainIdle
    /\ notebook \in {FiltersPath, PerceptronPath}
    /\ run_mode \in RunModes
    /\ nb_cell = 1
    /\ nb_stmt = 1
    /\ nb_halted = FALSE
    /\ names = {}
    /\ cell_result = [c \in 1..Len(CodeCells(notebook)) |-> "not run"]
    /\ conv_calls = << >>
    /\ stdout = << >>

\* the cell being run
CurrentCell == CodeCells(notebook)[nb_cell]

Running ==
    /\ notebook # "none"
    /\ ~nb_halted
    /\ nb_cell <= Len(CodeCells(notebook))

\* the next statement of the current cell runs to its end
RunStatement ==
    /\ Running
    /\ nb_stmt <= Len(CurrentCell.stmts)
    /\ \E envok \in BOOLEAN :
         LET st == RunEvents(CurrentCell.stmts[nb_stmt].events, 1,
                             [names |-> names, calls |-> conv_calls,
                              out |-> stdout, error |-> "none"], envok)
         IN  /\ st.error = "none"
             /\ names' = st.names
             /\ conv_calls' = st.calls
             /\ stdout' = st.out
             /\ nb_stmt' = nb_stmt + 1
    /\ UNCHANGED <<image, kernel, padding, img, image_height, image_width,
                   kernel_height, kernel_width, output_height, output_width,
                   output, i, j, pc, err, objVars, callerVars, workerVars,
                   notebook, run_mode, nb_cell, nb_halted, cell_result,
                   trainVars>>

\* the next statement of the current cell raises: the cell ends there, with
\* what the statement did before the error
StatementRaises ==
    /\ Running
    /\ nb_stmt <= Len(CurrentCell.stmts)
    /\ \E envok \in BOOLEAN :
         LET st == RunEvents(CurrentCell.stmts[nb_stmt].events, 1,
                             [names |-> names, calls |-> conv_calls,
                              out |-> stdout, error |-> "none"], envok)
         IN  /\ st.error # "none"
             /\ names' = st.names
             /\ conv_calls' = st.calls
             /\ stdout' = st.out
             /\ cell_result' = [cell_result EXCEPT ![nb_cell] = st.error]
    /\ IF run_mode = "run all"
       THEN /\ nb_halted' = TRUE
            /\ UNCHANGED <<nb_cell, nb_stmt>>
       ELSE /\ nb_cell' = nb_cell + 1
            /\ nb_stmt' = 1
            /\ UNCHANGED nb_halted
    /\ UNCHANGED <<image, kernel, padding, img, image_height, image_width,
                   kernel_height, kernel_width, output_height, output_width,
                   output, i, j, pc, err, objVars, callerVars, workerVars,
                   notebook, run_mode, trainVars>>

\* the current cell has run its last statement
CellCompletes ==
    /\ Running
    /\ nb_stmt > Len(CurrentCell.stmts)
    /\ cell_result' = [cell_result EXCEPT ![nb_cell] = "ok"]
    /\ nb_cell' = nb_cell + 1
    /\ nb_stmt' = 1
    /\ UNCHANGED <<image, kernel, padding, img, image_height, image_width,
                   kernel_height, kernel_width, output_height, output_width,
                   output, i, j, pc, err, objVars, callerVars, workerVars,
                   notebook, run_mode, nb_halted, names, conv_calls, stdout,
                   trainVars>>

NextNotebook ==
    \/ RunStatement
    \/ StatementRaises
    \/ CellCompletes

NotebookSpec == InitNotebook /\ [][NextNotebook]_vars

\* ---------------------------------------------------------------------
\* C25
\* ---------------------------------------------------------------------

\* the kernels the filters notebook uses and never assigns
UnassignedKernels ==
    {"sobel_diag1", "sobel_diag2", "corner_top_left", "corner_top_right",
     "corner_bottom_left", "corner_bottom_right", "log_filter"}

\* the cell has a statement that reads one of the names ns
UsesAny(cell, ns) ==
    \E s \in 1..Len(cell.stmts) :
        \E k \in 1..Len(cell.stmts[s].events) :
            /\ cell.stmts[s].events[k].op = "read"
            /\ cell.stmts[s].events[k].name \in ns

\* the cells of the filters notebook that use an unassigned kernel
UsingCells ==
    {c \in 1..Len(FiltersNotebook) : UsesAny(FiltersNotebook[c], UnassignedKernels)}

FirstUsingCell == CHOOSE c \in UsingCells : \A d \in UsingCells : c <= d

\* C25: in the filters notebook as shipped, sobel_diag1, sobel_diag2, the
\* four corner kernels and log_filter are never bound; run in order, the
\* first cell that uses one of them (the Question 1 cell) is the first cell
\* to fail, it fails with NameError, and convolve2d is never called with one
\* of these kernels; every later cell that uses one of them also ends with
\* NameError, and the cells that use none of them complete.
C25_UnassignedKernels ==
    notebook = FiltersPath =>
        /\ names \cap UnassignedKernels = {}
        /\ \A k \in 1..Len(conv_calls) : conv_calls[k] \notin UnassignedKernels
        /\ FiltersNotebook[FirstUsingCell] = Question1Cell
        /\ \A c \in 1..Len(FiltersNotebook) :
               /\ c \in UsingCells => cell_result[c] \in {"not run", "NameError"}
               /\ c \notin UsingCells => cell_result[c] \in {"not run", "ok"}
               /\ c < nb_cell => cell_result[c] # "not run"
        /\ nb_halted => /\ nb_cell = FirstUsingCell
                        /\ cell_result[nb_cell] = "NameError"

\* every cell has been run one after the other: the Question 1 cell and the
\* later cells that use the kernels ended with NameError, the others completed
C25_Witness ==
    /\ notebook = FiltersPath
    /\ run_mode = "cell by cell"
    /\ nb_cell > Len(FiltersNotebook)
    /\ cell_result[FirstUsingCell] = "NameError"
    /\ \A c \in UsingCells : cell_result[c] = "NameError"
    /\ Cardinality(UsingCells) = 6
    /\ cell_result[20] = "ok"
    /\ Len(conv_calls) = 15

\* ---------------------------------------------------------------------
\* The training loop of the perceptron notebook, lines 335-354.  Values of
\* tensors are kept by what they were computed from: the parameters by the
\* number of updates applied to them, a loss by its epoch and the parameters
\* of its forward pass, the .grad buffer of the parameters by the sequence
\* of losses whose gradients have been added into it since it was cleared.
\* ---------------------------------------------------------------------

num_epochs == 100

\* the loop has not started: model = SimplePerceptron(input_size=2) has
\* fresh parameters and no gradient, losses = []
InitTrain ==
    /\ image = NpArray(<< <<0>> >>)
    /\ kernel = NpArray(<< <<1>> >>)
    /\ padding = "valid"
    /\ AtEntry
    /\ caller_pc = "call"
    /\ returned = << >>
    /\ grad_x = NpZeros(0, 0)
    /\ grad_y = NpZeros(0, 0)
    /\ grad_magnitude = NpZeros(0, 0)
    /\ written = << >>
    /\ inflight = << >>
    /\ NotebookIdle
    /\ train_pc = "for"
    /\ epoch = -1
    /\ params = 0
    /\ outputs = << >>
    /\ loss = << >>
    /\ grad = << >>
    /\ stepped = << >>
    /\ losses = << >>

\* for epoch in range(num_epochs), with one more pass than range gives
ForNext_Inclusive ==
    /\ train_pc = "for"
    /\ epoch + 1 <= num_epochs
    /\ epoch' = epoch + 1
    /\ train_pc' = "forward"
    /\ UNCHANGED <<image, kernel, padding, img, image_height, image_width,
                   kernel_height, kernel_width, output_height, output_width,
                   output, i, j, pc, err, objVars, callerVars, workerVars,
                   nbVars, params, outputs, loss, grad, stepped, losses>>

\* for epoch in range(num_epochs): the next value of the range
ForNext ==
    /\ train_pc = "for"
    /\ epoch + 1 < num_epochs
    /\ epoch' = epoch + 1
    /\ train_pc' = "forward"
    /\ UNCHANGED <<image, kernel, padding, img, image_height, image_width,
                   kernel_height, kernel_width, output_height, output_width,
                   output, i, j, pc, err, objVars, callerVars, workerVars,
                   nbVars, params, outputs, loss, grad, stepped, losses>>

\* the range is exhausted: the loop ends, epoch keeps its last value
ForEnds ==
    /\ train_pc = "for"
    /\ epoch + 1 >= num_epochs
    /\ train_pc' = "after loop"
    /\ UNCHANGED <<image, kernel, padding, img, image_height, image_width,
                   kernel_height, kernel_width, output_height, output_width,
                   output, i, j, pc, err, objVars, callerVars, workerVars,
                   nbVars, epoch, params, outputs, loss, grad, stepped, losses>>

\* outputs = model(X_and)
Forward ==
    /\ train_pc = "forward"
    /\ outputs' = << [params |-> params] >>
    /\ train_pc' = "loss"
    /\ UNCHANGED <<image, kernel, padding, img, image_height, image_width,
                   kernel_height, kernel_width, output_height, output_width,
                   output, i, j, pc, err, objVars, callerVars, workerVars,
                   nbVars, epoch, params, loss, grad, stepped, losses>>

\* loss = criterion(outputs, y_and)
ComputeLoss ==
    /\ train_pc = "loss"
    /\ loss' = << [epoch |-> epoch, params |-> outputs[1].params] >>
    /\ train_pc' = "zero_grad"
    /\ UNCHANGED <<image, kernel, padding, img, image_height, image_width,
                   kernel_height, kernel_width, output_height, output_width,
                   output, i, j, pc, err, objVars, callerVars, workerVars,
                   nbVars, epoch, params, outputs, grad, stepped, losses>>

\* the statement of line 345 left out: the buffer keeps what it holds
ZeroGrad_Skipped ==
    /\ train_pc = "zero_grad"
    /\ train_pc' = "backward"
    /\ UNCHANGED <<image, kernel, padding, img, image_height, image_width,
                   kernel_height, kernel_width, output_height, output_width,
                   output, i, j, pc, err, objVars, callerVars, workerVars,
                   nbVars, epoch, params, outputs, loss, grad, stepped, losses>>

\* optimizer.zero_grad(): the .grad buffer of the parameters is cleared
ZeroGrad ==
    /\ train_pc = "zero_grad"
    /\ grad' = << >>
    /\ train_pc' = "backward"
    /\ UNCHANGED <<image, kernel, padding, img, image_height, image_width,
                   kernel_height, kernel_width, output_height, output_width,
                   output, i, j, pc, err, objVars, callerVars, workerVars,
                   nbVars, epoch, params, outputs, loss, stepped, losses>>

\* loss.backward(): the gradient of loss is added into the .grad buffer
Backward ==
    /\ train_pc = "backward"
    /\ grad' = Append(grad, loss[1])
    /\ train_pc' = "step"
    /\ UNCHANGED <<image, kernel, padding, img, image_height, image_width,
                   kernel_height, kernel_width, output_height, output_width,
                   output, i, j, pc, err, objVars, callerVars, workerVars,
                   nbVars, epoch, params, outputs, loss, stepped, losses>>

\* optimizer.step(): the parameters are updated from the .grad buffer
Step ==
    /\ train_pc = "step"
    /\ stepped' = Append(stepped, grad)
    /\ params' = params + 1
    /\ train_pc' = "append"
    /\ UNCHANGED <<image, kernel, padding, img, image_height, image_width,
                   kernel_height, kernel_width, output_height, output_width,
                   output, i, j, pc, err, objVars, callerVars, workerVars,
                   nbVars, epoch, outputs, loss, grad, losses>>

\* losses.append(loss.item())
AppendLoss ==
    /\ train_pc = "append"
    /\ losses' = Append(losses, loss[1])
    /\ train_pc' = "if"
    /\ UNCHANGED <<image, kernel, padding, img, image_height, image_width,
                   kernel_height, kernel_width, output_height, output_width,
                   output, i, j, pc, err, objVars, callerVars, workerVars,
                   nbVars, epoch, params, outputs, loss, grad, stepped>>

\* if (epoch + 1) % 20 == 0: print(f"Epoch [{epoch+1}/{num_epochs}], ...")
PrintProgress ==
    /\ train_pc = "if"
    /\ (epoch + 1) % 20 = 0
    /\ stdout' = Append(stdout, [epoch |-> epoch + 1, of |-> num_epochs,
                                 loss |-> loss[1]])
    /\ train_pc' = "for"
    /\ UNCHANGED <<image, kernel, padding, img, image_height, image_width,
                   kernel_height, kernel_width, output_height, output_width,
                   output, i, j, pc, err, objVars, callerVars, workerVars,
                   notebook, run_mode, nb_cell, nb_stmt, nb_halted, names,
                   cell_result, conv_calls, epoch, params, outputs, loss,
                   grad, stepped, losses>>

\* the condition of line 353 is false: nothing is printed
NoProgress ==
    /\ train_pc = "if"
    /\ (epoch + 1) % 20 # 0
    /\ train_pc' = "for"
    /\ UNCHANGED <<image, kernel, padding, img, image_height, image_width,
                   kernel_height, kernel_width, output_height, output_width,
                   output, i, j, pc, err, objVars, callerVars, workerVars,
                   nbVars, epoch, params, outputs, loss, grad, stepped, losses>>

NextTrain ==
    \/ ForNext
    \/ ForEnds
    \/ Forward
    \/ ComputeLoss
    \/ ZeroGrad
    \/ Backward
    \/ Step
    \/ AppendLoss
    \/ PrintProgress
    \/ NoProgress

TrainSpec == InitTrain /\ [][NextTrain]_vars

\* the cell runs to its end: a statement that can run does run
TrainLive == InitTrain /\ [][NextTrain]_vars /\ WF_vars(NextTrain)

\* ---------------------------------------------------------------------
\* C26
\* ---------------------------------------------------------------------

\* the statements of one pass of the loop, in the order they are written
PassOrder ==
    { <<"for", "forward">>, <<"forward", "loss">>, <<"loss", "zero_grad">>,
      <<"zero_grad", "backward">>, <<"backward", "step">>, <<"step", "append">>,
      <<"append", "if">>, <<"if", "for">>, <<"for", "after loop">> }

\* the loss of the current epoch, computed from the current parameters
ThisEpochsLoss == [epoch |-> epoch, params |-> params]

\* a step goes from one statement to the one written after it
StepInPassOrder == <<train_pc, train_pc'>> \in PassOrder

\* C26: every epoch runs forward pass, loss, zero_grad, backward, step in
\* exactly that order, so the gradient each optimizer step consumes is the
\* gradient of that epoch's loss alone, computed from the parameters the
\* step updates, and never an accumulation over epochs.
C26_FreshGradientEachStep ==
    /\ [][StepInPassOrder]_vars
    /\ [](train_pc = "backward" => /\ grad = << >>
                                   /\ loss = << ThisEpochsLoss >>)
    /\ [](train_pc = "step" => grad = << ThisEpochsLoss >>)
    /\ [](\A k \in 1..Len(stepped) :
             stepped[k] = << [epoch |-> k - 1, params |-> k - 1] >>)

\* the third optimizer step has consumed the gradient of the third loss only
C26_Witness ==
    /\ train_pc = "append"
    /\ epoch = 2
    /\ Len(stepped) = 3
    /\ stepped[3] = << [epoch |-> 2, params |-> 2] >>
    /\ params = 3

\* ---------------------------------------------------------------------
\* C27
\* ---------------------------------------------------------------------

\* the epochs whose progress line has been printed, in the order printed
PrintedEpochs == [k \in 1..Len(stdout) |-> stdout[k].epoch]

\* C27: the loop runs exactly num_epochs = 100 passes and then stops;
\* losses then holds exactly 100 entries, the k-th being the loss of the
\* k-th epoch, and the progress line has been printed for the epochs
\* 20, 40, 60, 80 and 100 and for no other.
C27_HundredEpochs ==
    /\ <>(train_pc = "after loop")
    /\ [](train_pc = "after loop" =>
            /\ epoch = num_epochs - 1
            /\ Len(stepped) = 100
            /\ Len(losses) = 100
            /\ \A k \in 1..100 : losses[k].epoch = k - 1
            /\ PrintedEpochs = <<20, 40, 60, 80, 100>>)
    /\ [](/\ Len(losses) <= 100
          /\ \A k \in 1..Len(stdout) : stdout[k].epoch % 20 = 0)

\* the loop has ended after the hundredth pass
C27_Witness ==
    /\ train_pc = "after loop"
    /\ epoch = 99
    /\ Len(losses) = 100
    /\ losses[100] = [epoch |-> 99, params |-> 99]
    /\ Len(stdout) = 5

\* ---------------------------------------------------------------------
\* C28
\* ---------------------------------------------------------------------

\* the place of the save and load cell among the code cells
SaveLoadIndex == CHOOSE c \in 1..Len(PerceptronNotebook) : PerceptronNotebook[c] = SaveLoadCell

\* the perceptron notebook has been run top to bottom through the save and
\* load cell, and every cell before it completed
RanThroughSaveLoad ==
    /\ notebook = PerceptronPath
    /\ nb_cell >= SaveLoadIndex
    /\ \A c \in 1..(SaveLoadIndex - 1) : cell_result[c] = "ok"
    /\ cell_result[SaveLoadIndex] # "not run"

\* C28 as stated: run top to bottom as shipped, the save and load cell
\* builds a fresh model, loads the saved state dict into it and reaches
\* 'Model loaded successfully!'.  The code does not: line 525 builds the model
\* from the name RobustPerceptron, which no cell binds, so the cell ends with
\* NameError after the save, loaded_model is never bound, load_state_dict is
\* never called and the line is never printed.
C28_SaveLoadRoundTrip ==
    RanThroughSaveLoad =>
        /\ cell_result[SaveLoadIndex] = "ok"
        /\ "loaded_model" \in names
        /\ \E k \in 1..Len(stdout) : stdout[k] = "Model loaded successfully!"

====
